---- MODULE Spec2Model ----
(***************************************************************************)
(* Split-flap clock firmware (ESP32): the StepperMotor phase sequencer,    *)
(* the SplitFlapClock orchestrator and the main loop around them.          *)
(*                                                                         *)
(* The model follows the dual-schedule revision (v2.3, src/README.md),     *)
(* which is a superset of the other two revisions; the engine and the      *)
(* orchestrator class are textually the same in src/splitflapclockcode.ino *)
(* apart from the quiet-hours predicate and the main loop.                 *)
(*                                                                         *)
(* Units.  Step counts are whole motor steps.  The float quantities        *)
(* (steps per flap, the step-error accumulators) are held in quarter       *)
(* steps, so 93.25f is 373; every value the model feeds to the float       *)
(* arithmetic is a multiple of 0.25 below 2^22 and is exact in binary32.   *)
(*                                                                         *)
(* Blocking calls.  homeMotor and the drain loop of moveFlaps spin on      *)
(* update() until the engine stops; an action contains the whole call,     *)
(* with the k-fold iteration of update() written in closed form            *)
(* (advance).  Readings of micros() are inputs of the operation reading    *)
(* them: the engine only ever looks at micros() - lastStepTime.            *)
(***************************************************************************)
EXTENDS Integers, Sequences, FiniteSets, TLC

VARIABLES
    \* --- StepperMotor objects (one record per engine)
    minutesMotor, hoursMotor,
    \* --- SplitFlapClock fields
    state, currentMinuteFlap, currentHourFlap, minuteStepError, hourStepError,
    \* --- globals (configuration, time source)
    g_minStepsPerFlap, g_hrStepsPerFlap, g_is24HourDisplay,
    g_quietHoursEnabled, quietA, quietB,
    g_isManualTimeMode, g_manualHour, g_manualMinute,
    lastRehomeCheckMinute,
    \* --- collaborators: NTP client, WiFi, the microsecond clock
    ntp, wifiConnected, micros,
    \* --- the mechanism: wheel position in steps past home, endstop sensors
    pos, sensor,
    \* --- observation: what the last operation did, what it returned,
    \*     where the main loop stands, and the step/flap totals of an axis run
    ops, ret, pc, issuedSteps, flapsDone,
    \* --- runs of a single operation: calls made so far, the last result
    calls, result,
    \* --- how much the environment has done so far: minutes gone by,
    \*     disturbances of the mechanism or the network, web requests
    elapsed, disturbances, requests

motorVars == <<minutesMotor, hoursMotor>>
clockVars == <<state, currentMinuteFlap, currentHourFlap, minuteStepError, hourStepError>>
cfgVars   == <<g_minStepsPerFlap, g_hrStepsPerFlap, g_is24HourDisplay,
               g_quietHoursEnabled, quietA, quietB>>
manVars   == <<g_isManualTimeMode, g_manualHour, g_manualMinute>>
envVars   == <<ntp, wifiConnected, sensor>>
obsVars   == <<issuedSteps, flapsDone, calls, result>>
runVars   == <<elapsed, disturbances, requests>>
vars == <<motorVars, clockVars, cfgVars, manVars, envVars, obsVars, runVars,
          lastRehomeCheckMinute, micros, pos, ops, ret, pc>>

----------------------------------------------------------------------------
(* Program constants *)

MOTOR_STEPS_PER_REVOLUTION == 4096
HOMING_SPEED_STEPS_PER_SEC == 650
NORMAL_SPEED_STEPS_PER_SEC == 650
MINUTE_HOME_OFFSET == 0
HOUR_HOME_POSITION == 0
ERROR_CODE_NO_WIFI_HR == 1
ERROR_CODE_NO_WIFI_MIN == 1
ERROR_CODE_WEB_FAIL_HR == 2
ERROR_CODE_WEB_FAIL_MIN == 2
ERROR_CODE_HR_HOME_FAIL_HR == 0
ERROR_CODE_HR_HOME_FAIL_MIN == 3
ERROR_CODE_MIN_HOME_FAIL_HR == 4
ERROR_CODE_MIN_HOME_FAIL_MIN == 0
MinuteWheel == 60
HourWheel == 24
HomingRevolutions == 3
AlignRevolutions == 2
HomingTimeoutMs == 15000
MicrosPerSecond == 1000000
PhaseCount == 8

\* ClockState
IDLE == "IDLE"
RUNNING == "RUNNING"
CALIBRATION == "CALIBRATION"
MINUTE_ALIGN == "MINUTE_ALIGN"
QUIET_MODE == "QUIET_MODE"
ERROR_STATE == "ERROR_STATE"
ClockState == {IDLE, RUNNING, CALIBRATION, MINUTE_ALIGN, QUIET_MODE, ERROR_STATE}

Axes == {"min", "hr"}
LOW4 == <<0, 0, 0, 0>>

\* Width of the microsecond counter in the model.  The ESP32's unsigned long
\* has 32 bits; the model checker's integers do not reach 2^32, so the
\* counter is kept narrower, with the same modular arithmetic.
ClockBits == 24

\* unsigned long arithmetic
Wrap == 2 ^ ClockBits
U32(x) == x % Wrap

abs(x) == IF x < 0 THEN -x ELSE x
Min2(x, y) == IF x < y THEN x ELSE y

----------------------------------------------------------------------------
(* StepperMotor *)

\* _stepSequence[8][4]
stepSequence == << <<1, 0, 0, 0>>, <<1, 1, 0, 0>>, <<0, 1, 0, 0>>, <<0, 1, 1, 0>>,
                   <<0, 0, 1, 0>>, <<0, 0, 1, 1>>, <<0, 0, 0, 1>>, <<1, 0, 0, 1>> >>

\* the constructor: all four lines LOW, not moving, the in-class initialisers
StepperMotor(reverseDirection) ==
    [ isMoving |-> FALSE, targetSteps |-> 0, stepsMoved |-> 0, direction |-> 1,
      currentStepInSequence |-> 0, lastStepTime |-> 0, stepInterval |-> 0,
      pins |-> LOW4, reverseDirection |-> reverseDirection ]

setSpeed(m, stepsPerSecond) ==
    [m EXCEPT !.stepInterval =
        IF stepsPerSecond > 0 THEN MicrosPerSecond \div stepsPerSecond ELSE 0]

\* the direction moveSteps gives a non-zero count
stepDirection(m, numSteps) ==
    LET d == IF numSteps > 0 THEN 1 ELSE -1
    IN  IF m.reverseDirection THEN -d ELSE d

\* a moveSteps that goes on counting where the last move stood
moveStepsKeepCount(m, numSteps, now) ==
    LET t == abs(numSteps)
        m1 == [m EXCEPT !.targetSteps = t]
    IN  IF t > 0
        THEN [m1 EXCEPT !.isMoving = TRUE,
                        !.direction = stepDirection(m, numSteps),
                        !.lastStepTime = now]
        ELSE m1

\* moveSteps(numSteps), micros() reading now
moveSteps(m, numSteps, now) ==
    LET t == abs(numSteps)
        m1 == [m EXCEPT !.targetSteps = t, !.stepsMoved = 0]
    IN  IF t > 0
        THEN [m1 EXCEPT !.isMoving = TRUE,
                        !.direction = stepDirection(m, numSteps),
                        !.lastStepTime = now]
        ELSE m1

\* a stop that leaves the lines as the last phase set them
stopEnergized(m) == [m EXCEPT !.isMoving = FALSE]

stop(m) == [m EXCEPT !.isMoving = FALSE, !.pins = LOW4]

\* the wrap of _currentStepInSequence after += _direction
nextPhase(seq, direction) ==
    LET s == seq + direction
    IN  IF s >= PhaseCount THEN 0 ELSE IF s < 0 THEN PhaseCount - 1 ELSE s

\* a comparison of the two readings as plain numbers, without the wrap
stepDueNoWrap(m, now) == now - m.lastStepTime >= m.stepInterval

\* whether update() finds the step interval elapsed
stepDue(m, now) == U32(now - m.lastStepTime) >= m.stepInterval

\* an update that makes up for a missed interval with a second step
updateBurst(m, now) ==
    LET once(e) ==
          IF ~e.isMoving THEN e
          ELSE IF stepDue(e, now)
          THEN LET seq == nextPhase(e.currentStepInSequence, e.direction)
                   e1  == [e EXCEPT !.lastStepTime = U32(@ + e.stepInterval),
                                    !.currentStepInSequence = seq,
                                    !.pins = stepSequence[seq + 1],
                                    !.stepsMoved = @ + 1]
               IN  IF e1.stepsMoved >= e1.targetSteps
                   THEN [e1 EXCEPT !.isMoving = FALSE, !.pins = LOW4]
                   ELSE e1
          ELSE e
    IN  once(once(m))

\* update(), micros() reading now; the engine after the call
update(m, now) ==
    IF ~m.isMoving THEN m
    ELSE IF stepDue(m, now)
    THEN LET seq == nextPhase(m.currentStepInSequence, m.direction)
             m1  == [m EXCEPT !.lastStepTime = U32(@ + m.stepInterval),
                              !.currentStepInSequence = seq,
                              !.pins = stepSequence[seq + 1],
                              !.stepsMoved = @ + 1]
         IN  IF m1.stepsMoved >= m1.targetSteps THEN stop(m1) ELSE m1
    ELSE m

\* update()'s return value, by its three return statements
updateResult(m, now) ==
    IF ~m.isMoving THEN FALSE
    ELSE IF stepDue(m, now)
    THEN IF m.stepsMoved + 1 >= m.targetSteps THEN FALSE ELSE TRUE
    ELSE TRUE

\* k consecutive stepping calls of update() on a moving engine none of which
\* reaches the target (k < targetSteps - stepsMoved), in closed form
advance(m, k) ==
    IF k = 0 THEN m
    ELSE LET seq == (m.currentStepInSequence + k * m.direction) % PhaseCount
         IN  [m EXCEPT !.lastStepTime = U32(@ + k * m.stepInterval),
                       !.currentStepInSequence = seq,
                       !.pins = stepSequence[seq + 1],
                       !.stepsMoved = @ + k]

\* while (motor.isMoving()) motor.update(): the engine when the loop exits
drain(m) ==
    IF ~m.isMoving THEN m
    ELSE LET left == m.targetSteps - m.stepsMoved
         IN  IF left <= 1
             THEN update(m, U32(m.lastStepTime + m.stepInterval))
             ELSE update(advance(m, left - 1),
                         U32(m.lastStepTime + left * m.stepInterval))

----------------------------------------------------------------------------
(* The mechanism (hardware behind the pins) *)

\* Steps per flap of the modelled wheels, in quarter steps (4.25): a
\* mechanism geared so that a wheel turns once in a few hundred steps.
MechStepsPerFlapQ == 17

WheelSize(a) == IF a = "min" THEN MinuteWheel ELSE HourWheel

\* motor steps in one turn of the wheel of axis a
WheelSteps(a) == (WheelSize(a) * MechStepsPerFlapQ) \div 4

SensorModes == {"ok", "stuckOpen"}

\* digitalRead(endstopPin) == LOW with the wheel p steps past home
endstopLow(mode, p) == mode = "ok" /\ p = 0

\* steps the wheel must still turn before the endstop reads LOW; -1: never
stepsToEndstop(a, mode, p) ==
    IF mode = "stuckOpen" THEN -1 ELSE (WheelSteps(a) - p) % WheelSteps(a)

\* the wheel after the engine performed k phase advances in its direction
turned(a, m, p, k) ==
    IF m.direction = stepDirection(m, 1)
    THEN (p + k) % WheelSteps(a)
    ELSE (p - k) % WheelSteps(a)

----------------------------------------------------------------------------
(* Observation: the events an operation emits, in program order.  st is   *)
(* the orchestrator's _state when the event happens, q what                *)
(* isInQuietHours() would answer at that moment.                           *)

Ev(k, a, n, st, q) == [k |-> k, a |-> a, n |-> n, st |-> st, q |-> q]

emit(c, k, a, n) == [c EXCEPT !.ops = Append(@, Ev(k, a, n, c.state, c.quiet))]

----------------------------------------------------------------------------
(* Globals read by the orchestrator, as one record g:                      *)
(*   is24, quietEnabled, A, B (schedules: start, end, days), manual,       *)
(*   manualHour, manualMinute, ntp (hour, minute, day), wifi,              *)
(*   minSteps, hrSteps (quarter steps per flap), sensor                    *)

getCurrentHour(g) == IF g.manual THEN g.manualHour ELSE g.ntp.hour

getCurrentMinute(g) == IF g.manual THEN g.manualMinute ELSE g.ntp.minute

\* a test that looks at the time mode only
isNtpActiveManualOnly(g) == ~g.manual

isNtpActive(g) == ~g.manual /\ g.wifi

\* (days >> dayOfWeek) & 1
dayBit(days, dayOfWeek) == (days \div (2 ^ dayOfWeek)) % 2 = 1

\* a window test that counts the end hour in
windowInclusive(s, currentHour) ==
    IF s.start > s.end
    THEN currentHour >= s.start \/ currentHour <= s.end
    ELSE currentHour >= s.start /\ currentHour <= s.end

\* one schedule's window test, as written for schedule A and for schedule B
windowActive(s, currentHour) ==
    IF s.start > s.end
    THEN currentHour >= s.start \/ currentHour < s.end
    ELSE currentHour >= s.start /\ currentHour < s.end

isInQuietHours(g) ==
    IF ~g.quietEnabled \/ ~isNtpActive(g) THEN FALSE
    ELSE LET currentHour == getCurrentHour(g)
             dayOfWeek   == g.ntp.day
         IN  IF dayBit(g.A.days, dayOfWeek) /\ windowActive(g.A, currentHour) THEN TRUE
             ELSE IF dayBit(g.B.days, dayOfWeek) /\ windowActive(g.B, currentHour) THEN TRUE
             ELSE FALSE

\* the hour reduced modulo 12, which shows noon and midnight as 0
hourModulo(g, hour24) == IF g.is24 THEN hour24 ELSE hour24 % 12

getTargetHourFlap(g, hour24) ==
    IF g.is24 THEN hour24
    ELSE IF hour24 = 0 \/ hour24 = 12 THEN 12
    ELSE IF hour24 > 12 THEN hour24 - 12
    ELSE hour24

stepsPerFlapOf(g, a) == IF a = "min" THEN g.minSteps ELSE g.hrSteps

----------------------------------------------------------------------------
(* SplitFlapClock: the private helpers.  c is the object together with the *)
(* two engines and the wheels: motor, flap, err (per axis), state, pos,   *)
(* ops, ret, now (the micros() reading of the operation), quiet (the       *)
(* quiet-hours predicate during the operation), homed (the locals minHomed *)
(* and hrHomed).                                                           *)

\* a conversion that drops the fraction instead of rounding
truncQ(q) == q \div 4

\* round() of math.h on a value held in quarter steps: half away from zero
roundQ(q) == IF q >= 0 THEN (q + 2) \div 4 ELSE -((-q + 2) \div 4)

\* the engine m2 is what the blocking loop left of the move just commanded
\* (moved: whether the command set the engine moving); the wheel follows
settle(c, a, m2, moved) ==
    LET c2 == [c EXCEPT !.motor[a] = m2, !.pos[a] = turned(a, m2, @, m2.stepsMoved)]
    IN  IF moved THEN emit(c2, "phase", a, m2.stepsMoved) ELSE c2

\* while(motor.isMoving()) motor.update(), m1 the engine after moveSteps
runToTarget(c, a, m1) == settle(c, a, drain(m1), m1.isMoving)

\* one iteration of the for loop of moveFlaps
moveOneFlap(c, a, stepsPerFlap) ==
    LET idealSteps  == stepsPerFlap + c.err[a]
        actualSteps == roundQ(idealSteps)
    IN  runToTarget(emit(emit([c EXCEPT !.err[a] = idealSteps - 4 * actualSteps],
                              "accumulator", a, idealSteps - 4 * actualSteps),
                         "moveSteps", a, actualSteps),
                    a, moveSteps(c.motor[a], actualSteps, c.now))

\* the single value of a one-element set: Only({F(x) : x \in {e}}) is F(e)
\* with e computed first
Only(S) == CHOOSE x \in S : TRUE

\* count >= 1 consecutive iterations of the for loop of moveFlaps; the run
\* is cut in two halves, the first finished before the second starts
RECURSIVE moveFlapsLoop(_, _, _, _)
moveFlapsLoop(c, a, stepsPerFlap, count) ==
    IF count = 1
    THEN moveOneFlap(c, a, stepsPerFlap)
    ELSE Only({ moveFlapsLoop(x, a, stepsPerFlap, count - count \div 2) :
                  x \in {moveFlapsLoop(c, a, stepsPerFlap, count \div 2)} })

\* all the flaps of the call driven by one step command
moveFlapsAtOnce(c0, a, stepsPerFlap, flapsToMove) ==
    IF flapsToMove <= 0 THEN c0
    ELSE moveOneFlap(c0, a, flapsToMove * stepsPerFlap)

\* the call is recorded before its early return
moveFlapsFrom(c0, a, stepsPerFlap, flapsToMove) ==
    IF flapsToMove <= 0 THEN c0
    ELSE moveFlapsLoop(c0, a, stepsPerFlap, flapsToMove)

moveFlaps(c, a, stepsPerFlap, flapsToMove) ==
    moveFlapsFrom(emit(c, "moveFlaps", a, flapsToMove), a, stepsPerFlap, flapsToMove)

\* the signed distance, without the wrap
flapsSigned(currentFlap, targetFlap, totalFlapsOnWheel) == targetFlap - currentFlap

\* a forward distance that takes a full turn to the flap the wheel is on
flapsForwardFullTurn(currentFlap, targetFlap, totalFlapsOnWheel) ==
    LET flapsToMove == targetFlap - currentFlap
    IN  IF flapsToMove <= 0 THEN flapsToMove + totalFlapsOnWheel ELSE flapsToMove

\* the forward distance moveToAbsoluteFlap computes
flapsForward(currentFlap, targetFlap, totalFlapsOnWheel) ==
    LET flapsToMove == targetFlap - currentFlap
    IN  IF flapsToMove < 0 THEN flapsToMove + totalFlapsOnWheel ELSE flapsToMove

\* currentFlap = targetFlap
setFlap(c, a, targetFlap) == [c EXCEPT !.flap[a] = targetFlap]

moveToAbsoluteFlap(c, a, stepsPerFlap, targetFlap, totalFlapsOnWheel) ==
    setFlap(moveFlaps(c, a, stepsPerFlap,
                      flapsForward(c.flap[a], targetFlap, totalFlapsOnWheel)),
            a, targetFlap)

\* _state = s
setState(c, s) == emit([c EXCEPT !.state = s], "state", s, 0)

\* Logger::add(message)
logAdd(c, message) == emit(c, "log", message, 0)

\* steps a homing move has performed when millis() - startTime first exceeds
\* the timeout, the loop keeping pace with the engine
stepsBeforeTimeout(m) ==
    IF m.stepInterval = 0 THEN m.targetSteps
    ELSE ((HomingTimeoutMs + 1) * 1000) \div m.stepInterval

\* homeMotor's return: the engine m2 stopped after k steps, found telling
\* whether the endstop read LOW
homeReturn(c, a, m2, k, found) ==
    LET c2 == [c EXCEPT !.motor[a] = m2, !.pos[a] = turned(a, m2, @, k)]
        c3 == IF k > 0 THEN emit(c2, "phase", a, k) ELSE c2
        c4 == IF found THEN c3 ELSE logAdd(c3, "HOMING FAILED")
    IN  [emit(c4, "home", a, IF found THEN 1 ELSE 0) EXCEPT !.ret = found]

\* a search that returns on failure without motor.stop()
homeSearchNoStop(c, a, m1, d) ==
    LET reach == Min2(m1.targetSteps, stepsBeforeTimeout(m1))
        found == d >= 0 /\ d <= reach
        k     == IF found THEN d ELSE reach
    IN  homeReturn(c, a, IF found THEN stop(advance(m1, k)) ELSE advance(m1, k - 1),
                   k, found)

\* homeMotor's loop: m1 the engine after moveSteps, d the steps to the endstop
homeSearch(c, a, m1, d) ==
    LET reach == Min2(m1.targetSteps, stepsBeforeTimeout(m1))
        found == d >= 0 /\ d <= reach
        k     == IF found THEN d ELSE reach
    IN  homeReturn(c, a, stop(advance(m1, k)), k, found)

\* homeMotor(motor, endstopPin, name); the result is in ret
homeMotor(c, g, a) ==
    homeSearch(emit(c, "moveSteps", a, MOTOR_STEPS_PER_REVOLUTION * HomingRevolutions), a,
               moveSteps(setSpeed(c.motor[a], HOMING_SPEED_STEPS_PER_SEC),
                         MOTOR_STEPS_PER_REVOLUTION * HomingRevolutions, c.now),
               stepsToEndstop(a, g.sensor[a], c.pos[a]))

\* the position and accumulator of axis a set to home
atHome(c, a) ==
    [c EXCEPT !.flap[a] = IF a = "min" THEN MINUTE_HOME_OFFSET ELSE HOUR_HOME_POSITION,
              !.err[a] = 0]

\* bool xHomed = homeMotor(...), h the object as homeMotor returns
homedLocal(h, a) == [h EXCEPT !.homed[a] = h.ret]

\* a homing that sets the flap index and leaves the accumulator
homeAxisKeepError(c, g, a) ==
    Only({ IF h.ret THEN [homedLocal(h, a) EXCEPT
                            !.flap[a] = IF a = "min" THEN MINUTE_HOME_OFFSET
                                        ELSE HOUR_HOME_POSITION]
           ELSE homedLocal(h, a) :
             h \in {homeMotor(c, g, a)} })

\* bool xHomed = homeMotor(...); if (xHomed) { flap = home; error = 0 }
homeAxis(c, g, a) ==
    Only({ IF h.ret THEN atHome(homedLocal(h, a), a) ELSE homedLocal(h, a) :
             h \in {homeMotor(c, g, a)} })

\* the two axes driven in the other order
moveToCurrentTimeHoursFirst(c, g) ==
    moveToAbsoluteFlap(
        moveToAbsoluteFlap(
            [emit(c, "time", "", getCurrentHour(g) * MinuteWheel + getCurrentMinute(g))
                EXCEPT !.motor["min"] = setSpeed(@, NORMAL_SPEED_STEPS_PER_SEC),
                       !.motor["hr"]  = setSpeed(@, NORMAL_SPEED_STEPS_PER_SEC)],
            "hr", g.hrSteps, getTargetHourFlap(g, getCurrentHour(g)), HourWheel),
        "min", g.minSteps, getCurrentMinute(g), MinuteWheel)

moveToCurrentTime(c, g) ==
    LET currentMinute == getCurrentMinute(g)
        currentHour   == getCurrentHour(g)
        targetHourFlap   == getTargetHourFlap(g, currentHour)
        targetMinuteFlap == currentMinute
    IN  moveToAbsoluteFlap(
            moveToAbsoluteFlap(
                [emit(c, "time", "", currentHour * MinuteWheel + currentMinute)
                    EXCEPT !.motor["min"] = setSpeed(@, NORMAL_SPEED_STEPS_PER_SEC),
                           !.motor["hr"]  = setSpeed(@, NORMAL_SPEED_STEPS_PER_SEC)],
                "min", g.minSteps, targetMinuteFlap, MinuteWheel),
            "hr", g.hrSteps, targetHourFlap, HourWheel)

\* the tail of initialize() once both axes are homed (CALIBRATION_MODE false)
initializeHomed(c, g) ==
    IF isInQuietHours(g)
    THEN setState(logAdd(c, "Initialized into Quiet Hours."), QUIET_MODE)
    ELSE setState(moveToCurrentTime(c, g), RUNNING)

\* the message alone, the state left as it is
fatalLogOnly(c, errorMsg) == logAdd(c, errorMsg)

\* _state = ERROR_STATE; Logger::add(errorMsg)
fatal(c, errorMsg) == logAdd(setState(c, ERROR_STATE), errorMsg)

\* return r from initialize()
returned(c, r) == emit([c EXCEPT !.ret = r], "return", "initialize", IF r THEN 1 ELSE 0)

\* initialize() after the two homing calls, their results in c.homed
initializeOutcome(c, g) ==
    IF ~c.homed["min"]
    THEN returned(IF c.homed["hr"]
                  THEN moveToAbsoluteFlap(
                           moveToAbsoluteFlap(fatal(c, "FATAL: Minute homing failed."),
                                              "hr", g.hrSteps,
                                              ERROR_CODE_MIN_HOME_FAIL_HR, HourWheel),
                           "min", g.minSteps, ERROR_CODE_MIN_HOME_FAIL_MIN, MinuteWheel)
                  ELSE fatal(c, "FATAL: Minute homing failed."),
                  FALSE)
    ELSE IF ~c.homed["hr"]
    THEN returned(moveToAbsoluteFlap(
                      moveToAbsoluteFlap(fatal(c, "FATAL: Hour homing failed."),
                                         "min", g.minSteps,
                                         ERROR_CODE_HR_HOME_FAIL_MIN, MinuteWheel),
                      "hr", g.hrSteps, ERROR_CODE_HR_HOME_FAIL_HR, HourWheel),
                  FALSE)
    ELSE returned(initializeHomed(c, g), TRUE)

initialize(c, g) ==
    initializeOutcome(
        homeAxis(homeAxis(setState(emit(c, "initialize", "", 0), IDLE), g, "min"),
                 g, "hr"),
        g)

\* enterCalibrationMode()
enterCalibrationMode(c) ==
    [setState(emit(c, "enterCalibrationMode", "", 0), CALIBRATION)
        EXCEPT !.motor["min"] = stop(@), !.motor["hr"] = stop(@)]

\* initialize() as built with CALIBRATION_MODE true
initializeCalibration(c, g) ==
    Only({ IF h.homed["min"] /\ h.homed["hr"]
           THEN returned(enterCalibrationMode(h), TRUE)
           ELSE initializeOutcome(h, g) :
             h \in {homeAxis(homeAxis(setState(emit(c, "initialize", "", 0), IDLE),
                                      g, "min"),
                             g, "hr")} })

\* a jog that moves the flaps whatever the state
calibrateMoveAnyState(c, g, a, flaps) ==
    moveFlaps(emit(c, "calibrateMove", a, flaps), a, stepsPerFlapOf(g, a), flaps)

\* calibrateMoveMinute(), calibrateMoveHour() (flaps = 1),
\* calibrateMoveMinute10(), calibrateMoveHour10() (flaps = 10)
calibrateMove(c, g, a, flaps) ==
    IF c.state = CALIBRATION
    THEN moveFlaps(emit(c, "calibrateMove", a, flaps), a, stepsPerFlapOf(g, a), flaps)
    ELSE emit(c, "calibrateMove", a, flaps)

\* a display that drives the flaps whether or not the axes homed
displayCodeUnhomed(c, g, hourFlapCode, minuteFlapCode) ==
    moveToAbsoluteFlap(
        moveToAbsoluteFlap(atHome(atHome(c, "min"), "hr"),
                           "hr", g.hrSteps, hourFlapCode, HourWheel),
        "min", g.minSteps, minuteFlapCode, MinuteWheel)

\* displaySystemError() after the two homing calls and _state = ERROR_STATE
displayCode(c, g, hourFlapCode, minuteFlapCode) ==
    IF c.homed["min"] /\ c.homed["hr"]
    THEN moveToAbsoluteFlap(
             moveToAbsoluteFlap(atHome(atHome(c, "min"), "hr"),
                                "hr", g.hrSteps, hourFlapCode, HourWheel),
             "min", g.minSteps, minuteFlapCode, MinuteWheel)
    ELSE logAdd(c, "Catastrophic failure")

displaySystemError(c, g, hourFlapCode, minuteFlapCode) ==
    displayCode(
        setState(
            homedLocal(homeMotor(
                homedLocal(homeMotor(
                    setState(logAdd(emit(c, "displaySystemError", "",
                                            hourFlapCode * MinuteWheel + minuteFlapCode),
                                       "SYSTEM ERROR"),
                             IDLE),
                    g, "min"), "min"),
                g, "hr"), "hr"),
            ERROR_STATE),
        g, hourFlapCode, minuteFlapCode)

\* whether checkForDrift finds axis a on its endstop away from its home flap
driftOn(c, g, a) ==
    /\ endstopLow(g.sensor[a], c.pos[a])
    /\ c.flap[a] # (IF a = "min" THEN MINUTE_HOME_OFFSET ELSE HOUR_HOME_POSITION)

\* a check that never finds drift
checkForDriftBlind(c, g) == [c EXCEPT !.ret = FALSE]

\* checkForDrift(); the result is in ret
checkForDrift(c, g) ==
    IF c.motor["min"].isMoving \/ c.motor["hr"].isMoving THEN [c EXCEPT !.ret = FALSE]
    ELSE IF driftOn(c, g, "min") \/ driftOn(c, g, "hr")
    THEN [initialize(logAdd(c, IF driftOn(c, g, "min")
                               THEN "DRIFT DETECTED on minutes."
                               ELSE "DRIFT DETECTED on hours."), g)
            EXCEPT !.ret = TRUE]
    ELSE [c EXCEPT !.ret = FALSE]

\* an hour change that moves the flaps and does not note the new flap
handleHourChangeKeepIndex(c, g) ==
    LET currentHour    == getCurrentHour(g)
        targetHourFlap == getTargetHourFlap(g, currentHour)
    IN  IF targetHourFlap # c.flap["hr"]
        THEN moveFlaps(c, "hr", g.hrSteps,
                       flapsForward(c.flap["hr"], targetHourFlap, HourWheel))
        ELSE c

handleHourChange(c, g) ==
    LET currentHour    == getCurrentHour(g)
        targetHourFlap == getTargetHourFlap(g, currentHour)
    IN  IF targetHourFlap # c.flap["hr"]
        THEN setFlap(moveFlaps(c, "hr", g.hrSteps,
                               flapsForward(c.flap["hr"], targetHourFlap, HourWheel)),
                     "hr", targetHourFlap)
        ELSE c

\* the alignment sweep: moveSteps(MOTOR_STEPS_PER_REVOLUTION * 2) on the minutes engine
sweep(c) ==
    [emit(c, "moveSteps", "min", MOTOR_STEPS_PER_REVOLUTION * AlignRevolutions)
        EXCEPT !.motor["min"] =
            moveSteps(@, MOTOR_STEPS_PER_REVOLUTION * AlignRevolutions, c.now)]

\* an alignment that gives the sweep one try
handleMinuteAlignNoRetry(c, g) ==
    IF endstopLow(g.sensor["min"], c.pos["min"])
    THEN handleHourChange(
             setState(atHome([c EXCEPT !.motor["min"] = stop(@)], "min"), RUNNING), g)
    ELSE c

\* an alignment that ends without looking at the hour
handleMinuteAlignNoHour(c, g) ==
    IF endstopLow(g.sensor["min"], c.pos["min"])
    THEN setState(atHome([c EXCEPT !.motor["min"] = stop(@)], "min"), RUNNING)
    ELSE IF ~c.motor["min"].isMoving THEN sweep(c)
    ELSE c

\* an alignment that ends with the minutes engine left in its move
handleMinuteAlignNoStop(c, g) ==
    IF endstopLow(g.sensor["min"], c.pos["min"])
    THEN handleHourChange(setState(atHome(c, "min"), RUNNING), g)
    ELSE IF ~c.motor["min"].isMoving THEN sweep(c)
    ELSE c

handleMinuteAlign(c, g) ==
    IF endstopLow(g.sensor["min"], c.pos["min"])
    THEN handleHourChange(
             setState(atHome([c EXCEPT !.motor["min"] = stop(@)], "min"), RUNNING), g)
    ELSE IF ~c.motor["min"].isMoving THEN sweep(c)
    ELSE c

\* a re-home at midnight only, whatever the display mode
needsFullRehomeMidnight(g, currentHour) == currentHour = 0

\* whether handleRunning's 59 -> 0 branch asks for the full re-home
needsFullRehome(g, currentHour) ==
    \/ g.is24 /\ currentHour = 0
    \/ ~g.is24 /\ (currentHour = 1 \/ currentHour = 13)

\* a minute advance that moves the flap and forgets to note the minute
advanceMinuteKeepIndex(c, g) ==
    LET currentMinute == getCurrentMinute(g)
        currentHour   == getCurrentHour(g)
    IN  IF currentMinute = c.flap["min"] THEN c
        ELSE IF currentMinute = 0 /\ c.flap["min"] = 59
        THEN IF needsFullRehome(g, currentHour)
             THEN initialize(logAdd(c, "re-home triggered."), g)
             ELSE sweep([setState(c, MINUTE_ALIGN) EXCEPT !.motor["min"] =
                             setSpeed(@, HOMING_SPEED_STEPS_PER_SEC)])
        ELSE moveFlaps(emit(c, "advance", "min", currentMinute), "min", g.minSteps, 1)

\* handleRunning() after checkForDrift() returned false
advanceMinute(c, g) ==
    LET currentMinute == getCurrentMinute(g)
        currentHour   == getCurrentHour(g)
    IN  IF currentMinute = c.flap["min"] THEN c
        ELSE IF currentMinute = 0 /\ c.flap["min"] = 59
        THEN IF needsFullRehome(g, currentHour)
             THEN initialize(logAdd(c, "re-home triggered."), g)
             ELSE sweep([setState(c, MINUTE_ALIGN) EXCEPT !.motor["min"] =
                             setSpeed(@, HOMING_SPEED_STEPS_PER_SEC)])
        ELSE setFlap(moveFlaps(emit(c, "advance", "min", currentMinute),
                               "min", g.minSteps, 1),
                     "min", currentMinute)

\* a RUNNING tick that checks for drift and does not read the minute
handleRunningDriftOnly(c, g) == checkForDrift(c, g)

handleRunning(c, g) ==
    Only({ IF d.ret THEN d ELSE advanceMinute(d, g) : d \in {checkForDrift(c, g)} })

\* one engine's update() called from the orchestrator, the wheel following
stepped(c, a, m1, k) ==
    LET c1 == [c EXCEPT !.motor[a] = m1, !.pos[a] = turned(a, m1, @, k)]
    IN  IF k > 0 THEN emit(c1, "phase", a, k) ELSE c1

engineUpdate(c, a) ==
    stepped(emit(c, "engineUpdate", a, IF c.motor[a].isMoving THEN 1 ELSE 0),
            a, update(c.motor[a], c.now),
            IF c.motor[a].isMoving /\ stepDue(c.motor[a], c.now) THEN 1 ELSE 0)

\* update() catching up after quiet hours without leaving QUIET_MODE first
dispatchCatchUpInQuiet(c, g) ==
    IF c.state = RUNNING
    THEN IF isInQuietHours(g)
         THEN setState(logAdd(c, "Entering Quiet Hours."), QUIET_MODE)
         ELSE handleRunning(c, g)
    ELSE IF c.state = MINUTE_ALIGN THEN handleMinuteAlign(c, g)
    ELSE IF c.state = QUIET_MODE
    THEN IF ~isInQuietHours(g)
         THEN setState(
                  moveToCurrentTime(logAdd(c, "Exiting Quiet Hours. Catching up."), g),
                  RUNNING)
         ELSE c
    ELSE c

\* update() leaving QUIET_MODE by a full initialize(), homing included
dispatchRehomeAfterQuiet(c, g) ==
    IF c.state = RUNNING
    THEN IF isInQuietHours(g)
         THEN setState(logAdd(c, "Entering Quiet Hours."), QUIET_MODE)
         ELSE handleRunning(c, g)
    ELSE IF c.state = MINUTE_ALIGN THEN handleMinuteAlign(c, g)
    ELSE IF c.state = QUIET_MODE
    THEN IF ~isInQuietHours(g)
         THEN initialize(logAdd(c, "Exiting Quiet Hours. Catching up."), g)
         ELSE c
    ELSE c

\* SplitFlapClock::update() after its two engine updates
dispatch(c, g) ==
    IF c.state = RUNNING
    THEN IF isInQuietHours(g)
         THEN setState(logAdd(c, "Entering Quiet Hours."), QUIET_MODE)
         ELSE handleRunning(c, g)
    ELSE IF c.state = MINUTE_ALIGN THEN handleMinuteAlign(c, g)
    ELSE IF c.state = QUIET_MODE
    THEN IF ~isInQuietHours(g)
         THEN setState(
                  moveToCurrentTime(
                      setState(logAdd(c, "Exiting Quiet Hours. Catching up."), IDLE), g),
                  RUNNING)
         ELSE c
    ELSE c

\* an update() that services the engines whatever the state
clockUpdateUnguarded(c, g) ==
    dispatch(engineUpdate(engineUpdate(emit(c, "update", "", 0), "min"), "hr"), g)

\* SplitFlapClock::update()
clockUpdate(c, g) ==
    dispatch(IF c.state # ERROR_STATE
             THEN engineUpdate(engineUpdate(emit(c, "update", "", 0), "min"), "hr")
             ELSE emit(c, "update", "", 0),
             g)

----------------------------------------------------------------------------
(* Bounds of the model *)

\* minutes the time source may advance in one run
MaxMinutes == 1
\* disturbances (sensor faults, slipping wheels, WiFi drops) in one run
MaxDisturbances == 2
\* web requests in one run
MaxRequests == 1
\* steps of an alignment sweep the loop is followed for
MaxSweep == 8
\* flaps one axis may advance in a run of moveFlaps calls (SpecAxis)
MaxFlaps == 12
\* moveToAbsoluteFlap calls in a run (SpecMoveTo)
MaxCalls == 2
\* calls made on an engine run alone
MaxEngineCalls == 6
\* passes of loop() followed around the end of an alignment sweep
MaxPasses == 8

\* Sunday = 0 .. Saturday = 6
Tuesday == 2
Friday == 5
Saturday == 6

\* (day, hour, minute) the time source may show when the firmware starts:
\* a minute before 13:00 and before midnight (the hourly re-home of either
\* display mode), before the fixed 08:30 re-home on a schedule B morning,
\* before the end and before the start of schedule A's window, and at a
\* plain minute in the middle of a day hour
StartTimes ==
    { [day |-> Tuesday,  hour |-> 10, minute |-> 14],
      [day |-> Tuesday,  hour |-> 12, minute |-> 59],
      [day |-> Tuesday,  hour |-> 23, minute |-> 59],
      [day |-> Saturday, hour |-> 8,  minute |-> 29],
      [day |-> Tuesday,  hour |-> 6,  minute |-> 59],
      [day |-> Tuesday,  hour |-> 20, minute |-> 59] }

\* the schedules as shipped: A 21-7 Mon..Thu, B 23-10 Fri, Sat, Sun
DefaultA == [start |-> 21, end |-> 7, days |-> 30]
DefaultB == [start |-> 23, end |-> 10, days |-> 97]

----------------------------------------------------------------------------
(* Packing the state variables into the records the operators work on *)

Globals ==
    [ is24 |-> g_is24HourDisplay, quietEnabled |-> g_quietHoursEnabled,
      A |-> quietA, B |-> quietB,
      manual |-> g_isManualTimeMode, manualHour |-> g_manualHour,
      manualMinute |-> g_manualMinute, ntp |-> ntp, wifi |-> wifiConnected,
      minSteps |-> g_minStepsPerFlap, hrSteps |-> g_hrStepsPerFlap,
      sensor |-> sensor ]

\* the micros() reading of an operation: while the minutes engine is in
\* flight either no time or one step interval has passed since its last step
Readings ==
    IF minutesMotor.isMoving
    THEN {minutesMotor.lastStepTime,
          U32(minutesMotor.lastStepTime + minutesMotor.stepInterval)}
    ELSE {0}

\* the object as an operation entered at reading now under globals g finds it
Ctx(now, g) ==
    [ motor |-> [min |-> minutesMotor, hr |-> hoursMotor],
      flap  |-> [min |-> currentMinuteFlap, hr |-> currentHourFlap],
      err   |-> [min |-> minuteStepError, hr |-> hourStepError],
      state |-> state, pos |-> pos, ops |-> <<>>, ret |-> FALSE, now |-> now,
      quiet |-> isInQuietHours(g), homed |-> [min |-> FALSE, hr |-> FALSE] ]

\* the object as the operation leaves it
Commit(c) ==
    /\ minutesMotor' = c.motor["min"]
    /\ hoursMotor' = c.motor["hr"]
    /\ currentMinuteFlap' = c.flap["min"]
    /\ currentHourFlap' = c.flap["hr"]
    /\ minuteStepError' = c.err["min"]
    /\ hourStepError' = c.err["hr"]
    /\ state' = c.state
    /\ pos' = c.pos
    /\ ops' = c.ops
    /\ ret' = c.ret

----------------------------------------------------------------------------
(* Initial state: the global objects as constructed, the settings as       *)
(* loadSettings() may find them, the mechanism wherever it was left.       *)

InitProgram ==
    /\ minutesMotor = StepperMotor(TRUE)
    /\ hoursMotor = StepperMotor(FALSE)
    /\ state = IDLE
    /\ currentMinuteFlap = 0 /\ currentHourFlap = 0
    /\ minuteStepError = 0 /\ hourStepError = 0
    /\ g_isManualTimeMode = FALSE /\ g_manualHour = 10 /\ g_manualMinute = 10
    /\ lastRehomeCheckMinute = -1
    /\ micros = 0
    /\ ops = <<>> /\ ret = FALSE
    /\ issuedSteps = [a \in Axes |-> 0] /\ flapsDone = [a \in Axes |-> 0]
    /\ calls = 0 /\ result = 0
    /\ elapsed = 0 /\ disturbances = 0 /\ requests = 0

Init ==
    /\ InitProgram
    /\ g_minStepsPerFlap = MechStepsPerFlapQ /\ g_hrStepsPerFlap = MechStepsPerFlapQ
    /\ g_is24HourDisplay \in BOOLEAN
    /\ g_quietHoursEnabled \in BOOLEAN
    /\ quietA = DefaultA /\ quietB = DefaultB
    /\ ntp \in StartTimes
    /\ wifiConnected = TRUE
    /\ sensor \in { [min |-> "ok", hr |-> "ok"], [min |-> "stuckOpen", hr |-> "ok"],
                    [min |-> "ok", hr |-> "stuckOpen"] }
    /\ pos = [min |-> 1000, hr |-> 500]
    /\ pc = "setup"

----------------------------------------------------------------------------
(* The firmware's handlers *)

\* setup(): WiFi and mDNS must come up, else the error code is shown and
\* the firmware halts; then the first initialize(), whose failure halts too
Setup(wifiOk, mdnsOk) ==
    /\ pc = "setup"
    /\ LET g == Globals
           c == Ctx(0, g)
       IN  IF ~wifiOk
           THEN /\ \E c1 \in {displaySystemError(
                                 logAdd(c, "FATAL: WiFi connection failed."), g,
                                 ERROR_CODE_NO_WIFI_HR, ERROR_CODE_NO_WIFI_MIN)} :
                      Commit(c1)
                /\ pc' = "halt"
           ELSE IF ~mdnsOk
           THEN /\ \E c1 \in {displaySystemError(
                                 logAdd(c, "FATAL: mDNS setup failed."), g,
                                 ERROR_CODE_WEB_FAIL_HR, ERROR_CODE_WEB_FAIL_MIN)} :
                      Commit(c1)
                /\ pc' = "halt"
           ELSE \E c1 \in {initialize(logAdd(c, "System Started. NTP time synced."), g)} :
                    /\ Commit(c1)
                    /\ pc' = IF c1.ret THEN "loop" ELSE "halt"
    /\ UNCHANGED <<cfgVars, manVars, envVars, obsVars, runVars,
                   lastRehomeCheckMinute, micros>>

\* what server.handleClient() may find: no request, /save with the
\* arguments the page always sends, /setManualTime
NoRequest == [kind |-> "none"]
SaveRequests ==
    { [kind |-> "save", is24hour |-> h, quietEnabled |-> q] : h, q \in BOOLEAN }
ManualRequests == { [kind |-> "manual", hour |-> 13, minute |-> 59] }
Requests == {NoRequest} \cup SaveRequests \cup ManualRequests

\* the globals as the handler of request req leaves them
requested(g, req) ==
    CASE req.kind = "save" ->
            [g EXCEPT !.manual = FALSE, !.is24 = req.is24hour,
                      !.quietEnabled = req.quietEnabled]
      [] req.kind = "manual" ->
            [g EXCEPT !.manual = TRUE, !.manualHour = req.hour,
                      !.manualMinute = req.minute]
      [] OTHER -> g

\* server.handleClient(): the handler of req, g the globals it has set
handleClient(c, g, req) ==
    CASE req.kind = "save"   -> initialize(emit(c, "request", "save", 0), g)
      [] req.kind = "manual" ->
            initialize(logAdd(emit(c, "request", "manual", 0),
                              "Switched to Manual Time"), g)
      [] OTHER               -> c

\* whether loop() finds one of the two fixed re-homing times
rehomeTime(currentHour, currentMinute) ==
    (currentHour = 8 /\ currentMinute = 30) \/ (currentHour = 20 /\ currentMinute = 30)

\* a scheduled re-homing block that does not look at the last checked minute
rehomeCheckEveryPass(c, g, lastMinute) ==
    IF rehomeTime(getCurrentHour(g), getCurrentMinute(g))
    THEN initialize(logAdd(emit(c, "rehomeCheck", "", 1),
                           "Scheduled re-home triggered."), g)
    ELSE emit(c, "rehomeCheck", "", 0)

\* loop(): the scheduled re-homing block
rehomeCheck(c, g, lastMinute) ==
    IF getCurrentMinute(g) # lastMinute /\ rehomeTime(getCurrentHour(g), getCurrentMinute(g))
    THEN initialize(logAdd(emit(c, "rehomeCheck", "", 1),
                           "Scheduled re-home triggered."), g)
    ELSE emit(c, "rehomeCheck", "", 0)

\* loop(): the manual clock
manualMinuteNext(minute) == IF minute + 1 >= 60 THEN 0 ELSE minute + 1
manualHourNext(hour, minute) ==
    IF minute + 1 >= 60 THEN (IF hour + 1 >= 24 THEN 0 ELSE hour + 1) ELSE hour

\* one pass of loop(): the request handler, splitFlapClock.update(), the
\* scheduled re-homing block, the manual clock (minuteOver telling whether
\* millis() - g_lastMinuteTick >= 60000).  A sweep in flight is followed for
\* MaxSweep steps, with no request and no change of minute meanwhile.
Loop(req, minuteOver) ==
    /\ pc = "loop"
    /\ minutesMotor.isMoving =>
          minutesMotor.stepsMoved < MaxSweep /\ req = NoRequest /\ ~minuteOver
    /\ req # NoRequest => requests < MaxRequests
    /\ requests' = IF req # NoRequest THEN requests + 1 ELSE requests
    /\ LET g == requested(Globals, req)
       IN  /\ minuteOver => g.manual /\ elapsed < MaxMinutes
           /\ \E now \in Readings :
                \E c1 \in {rehomeCheck(
                             clockUpdate(handleClient(Ctx(now, g), g, req), g),
                             g, lastRehomeCheckMinute)} : Commit(c1)
           /\ lastRehomeCheckMinute' = getCurrentMinute(g)
           /\ g_isManualTimeMode' = g.manual
           /\ g_is24HourDisplay' = g.is24
           /\ g_quietHoursEnabled' = g.quietEnabled
           /\ g_manualMinute' = IF minuteOver THEN manualMinuteNext(g.manualMinute)
                                ELSE g.manualMinute
           /\ g_manualHour' = IF minuteOver THEN manualHourNext(g.manualHour, g.manualMinute)
                              ELSE g.manualHour
    /\ elapsed' = IF minuteOver THEN elapsed + 1 ELSE elapsed
    /\ UNCHANGED <<quietA, quietB, g_minStepsPerFlap, g_hrStepsPerFlap, envVars,
                   obsVars, disturbances, micros, pc>>

----------------------------------------------------------------------------
(* The environment, acting between two passes of loop() while no sweep is  *)
(* in flight                                                               *)

quiescent == pc = "loop" /\ ~minutesMotor.isMoving

\* the NTP time moves on by one minute; loop() runs many times a minute, so
\* a pass has read the minute that ends
NtpMinute ==
    /\ quiescent
    /\ lastRehomeCheckMinute = getCurrentMinute(Globals)
    /\ elapsed < MaxMinutes
    /\ elapsed' = elapsed + 1
    /\ ntp' = IF ntp.minute < 59 THEN [ntp EXCEPT !.minute = @ + 1]
              ELSE IF ntp.hour < 23 THEN [ntp EXCEPT !.minute = 0, !.hour = @ + 1]
              ELSE [minute |-> 0, hour |-> 0, day |-> (ntp.day + 1) % 7]
    /\ UNCHANGED <<motorVars, clockVars, cfgVars, manVars, wifiConnected, sensor,
                   obsVars, disturbances, requests, lastRehomeCheckMinute, micros,
                   pos, pc>>
    /\ ops' = <<>> /\ ret' = FALSE

disturb ==
    /\ quiescent
    /\ disturbances < MaxDisturbances
    /\ disturbances' = disturbances + 1
    /\ ops' = <<>> /\ ret' = FALSE
    /\ UNCHANGED <<motorVars, clockVars, cfgVars, manVars, obsVars, elapsed, requests,
                   lastRehomeCheckMinute, micros, pc>>

\* an endstop sensor fails or recovers
SensorChange(a, mode) ==
    /\ disturb
    /\ sensor[a] # mode
    /\ sensor' = [sensor EXCEPT ![a] = mode]
    /\ UNCHANGED <<ntp, wifiConnected, pos>>

\* the wheel of an axis slips (missed steps, a hand on the wheel) and comes
\* to rest on the home position
Slip(a) ==
    /\ disturb
    /\ pos[a] # 0
    /\ pos' = [pos EXCEPT ![a] = 0]
    /\ UNCHANGED envVars

\* the WiFi link drops or returns
WifiChange ==
    /\ disturb
    /\ wifiConnected' = ~wifiConnected
    /\ UNCHANGED <<ntp, sensor, pos>>

Next ==
    \/ \E w \in BOOLEAN, d \in BOOLEAN : Setup(w, d)
    \/ \E req \in Requests, over \in BOOLEAN : Loop(req, over)
    \/ NtpMinute
    \/ \E a \in Axes, mode \in SensorModes : SensorChange(a, mode)
    \/ \E a \in Axes : Slip(a)
    \/ WifiChange

Spec == Init /\ [][Next]_vars

----------------------------------------------------------------------------
(* Runs of the axis operations alone: both axes homed, the engines at      *)
(* normal speed, the steps per flap any of StepsChoices (quarter steps:    *)
(* 4.25, 93.0, 93.25, 93.5).                                               *)

StepsChoices == {MechStepsPerFlapQ, 372, 373, 374}

\* the indices of the step commands ops holds for axis a
stepCommands(o, a) == { i \in DOMAIN o : o[i].k = "moveSteps" /\ o[i].a = a }

\* the sum of the step counts of the commands at the indices in I
RECURSIVE stepsOf(_, _)
stepsOf(o, I) ==
    IF I = {} THEN 0
    ELSE LET i == CHOOSE x \in I : TRUE IN o[i].n + stepsOf(o, I \ {i})

InitHomed(next) ==
    /\ minutesMotor = setSpeed(StepperMotor(TRUE), NORMAL_SPEED_STEPS_PER_SEC)
    /\ hoursMotor = setSpeed(StepperMotor(FALSE), NORMAL_SPEED_STEPS_PER_SEC)
    /\ state = RUNNING
    /\ currentMinuteFlap = MINUTE_HOME_OFFSET /\ currentHourFlap = HOUR_HOME_POSITION
    /\ minuteStepError = 0 /\ hourStepError = 0
    /\ sensor = [a \in Axes |-> "ok"]
    /\ pos = [a \in Axes |-> 0]
    /\ lastRehomeCheckMinute = 0
    /\ micros = 0
    /\ ops = <<>> /\ ret = TRUE
    /\ issuedSteps = [a \in Axes |-> 0] /\ flapsDone = [a \in Axes |-> 0]
    /\ calls = 0 /\ result = 0
    /\ elapsed = 0 /\ disturbances = 0 /\ requests = 0
    /\ pc = next

\* the settings as shipped, the time source at some time of day
DefaultSettings ==
    /\ g_isManualTimeMode = FALSE /\ g_manualHour = 10 /\ g_manualMinute = 10
    /\ g_is24HourDisplay = FALSE /\ g_quietHoursEnabled = FALSE
    /\ quietA = DefaultA /\ quietB = DefaultB
    /\ ntp = [day |-> Tuesday, hour |-> 0, minute |-> 0]
    /\ wifiConnected = TRUE

InitAxis ==
    /\ InitHomed("axis")
    /\ DefaultSettings
    /\ g_minStepsPerFlap \in StepsChoices
    /\ g_hrStepsPerFlap = g_minStepsPerFlap

\* what an axis operation leaves alone
axisFrame == UNCHANGED <<cfgVars, manVars, envVars, runVars, lastRehomeCheckMinute,
                         micros, pc>>

\* moveFlaps(motor, errorAccumulator, stepsPerFlap, flapsToMove) on axis a
AxisMoveFlaps(a, flapsToMove) ==
    /\ pc = "axis"
    /\ flapsDone[a] + flapsToMove <= MaxFlaps
    /\ \E c1 \in {moveFlaps(Ctx(0, Globals), a, stepsPerFlapOf(Globals, a), flapsToMove)} :
         /\ Commit(c1)
         /\ issuedSteps' = [issuedSteps EXCEPT ![a] = @ + stepsOf(c1.ops, stepCommands(c1.ops, a))]
         /\ flapsDone' = [flapsDone EXCEPT ![a] = @ + Cardinality(stepCommands(c1.ops, a))]
    /\ result' = flapsToMove
    /\ UNCHANGED calls
    /\ axisFrame

NextAxis == \E a \in Axes, n \in (-1..3) \cup {5} : AxisMoveFlaps(a, n)

SpecAxis == InitAxis /\ [][NextAxis]_vars

InitMoveTo ==
    /\ InitHomed("moveTo")
    /\ DefaultSettings
    /\ g_minStepsPerFlap = 373 /\ g_hrStepsPerFlap = 373

\* moveToAbsoluteFlap(motor, currentFlap, errorAccumulator, stepsPerFlap,
\* targetFlap, totalFlapsOnWheel) on axis a; result keeps the arguments
AxisMoveTo(a, targetFlap) ==
    /\ pc = "moveTo"
    /\ calls < MaxCalls
    /\ \E c1 \in {moveToAbsoluteFlap(Ctx(0, Globals), a, stepsPerFlapOf(Globals, a),
                                     targetFlap, WheelSize(a))} :
         /\ Commit(c1)
         /\ issuedSteps' = [issuedSteps EXCEPT ![a] = @ + stepsOf(c1.ops, stepCommands(c1.ops, a))]
         /\ flapsDone' = [flapsDone EXCEPT ![a] = @ + Cardinality(stepCommands(c1.ops, a))]
    /\ calls' = calls + 1
    /\ result' = [a |-> a, currentFlap |-> Ctx(0, Globals).flap[a], targetFlap |-> targetFlap]
    /\ axisFrame

NextMoveTo == \E a \in Axes : \E t \in 0..(WheelSize(a) - 1) : AxisMoveTo(a, t)

SpecMoveTo == InitMoveTo /\ [][NextMoveTo]_vars

----------------------------------------------------------------------------
(* Runs of the homing of one axis as initialize() performs it: homeMotor   *)
(* and the reset that follows its success, from any tracked index, any     *)
(* accumulator, any wheel position, with a working or a dead endstop.      *)

InitHome ==
    /\ minutesMotor = setSpeed(StepperMotor(TRUE), NORMAL_SPEED_STEPS_PER_SEC)
    /\ hoursMotor = setSpeed(StepperMotor(FALSE), NORMAL_SPEED_STEPS_PER_SEC)
    /\ state = IDLE
    /\ currentMinuteFlap \in {0, 29, 59} /\ currentHourFlap \in {0, 12}
    /\ minuteStepError \in -2..2 /\ hourStepError \in {-1, 0, 2}
    /\ sensor \in [Axes -> SensorModes]
    /\ pos \in { [min |-> p, hr |-> q] : p \in {0, 1, 100}, q \in {0, 50} }
    /\ DefaultSettings
    /\ g_minStepsPerFlap = MechStepsPerFlapQ /\ g_hrStepsPerFlap = MechStepsPerFlapQ
    /\ lastRehomeCheckMinute = 0
    /\ micros = 0
    /\ ops = <<>> /\ ret = FALSE
    /\ issuedSteps = [a \in Axes |-> 0] /\ flapsDone = [a \in Axes |-> 0]
    /\ calls = 0 /\ result = <<>>
    /\ elapsed = 0 /\ disturbances = 0 /\ requests = 0
    /\ pc = "home"

\* what a homing of axis a found and left: c the object before, c1 after
homingRecord(a, c, c1) ==
    [ a |-> a, ok |-> c1.homed[a],
      flapBefore |-> c.flap[a], errBefore |-> c.err[a], posBefore |-> c.pos[a],
      flapAfter |-> c1.flap[a], errAfter |-> c1.err[a], posAfter |-> c1.pos[a],
      moving |-> c1.motor[a].isMoving, pins |-> c1.motor[a].pins,
      stateAfter |-> c1.state, steps |-> c1.motor[a].stepsMoved ]

\* initialize(): the homing of axis a and the reset after it
HomeAxis(a) ==
    /\ pc = "home"
    /\ calls < MaxCalls
    /\ \E c1 \in {homeAxis(Ctx(0, Globals), Globals, a)} :
         /\ Commit(c1)
         /\ result' = Append(result, homingRecord(a, Ctx(0, Globals), c1))
    /\ calls' = calls + 1
    /\ UNCHANGED <<issuedSteps, flapsDone>>
    /\ axisFrame

NextHome == \E a \in Axes : HomeAxis(a)

SpecHome == InitHome /\ [][NextHome]_vars

----------------------------------------------------------------------------
(* Runs of one StepperMotor alone: any sequence of setSpeed, moveSteps,    *)
(* update and stop on the minutes engine as constructed, micros() moving   *)
(* on between the calls (also across its wrap).  result keeps the last     *)
(* call: its name, its argument, the engine before it, what it returned.   *)

SpeedChoices == {-1, 250000, 500000}
StepCounts == {-2, 0, 1, 3}
TickChoices == {0, 2, 9, Wrap - 4}

call(op, n, before, r) == [op |-> op, n |-> n, before |-> before, ret |-> r]

InitEngine ==
    /\ InitProgram
    /\ DefaultSettings
    /\ g_minStepsPerFlap = MechStepsPerFlapQ /\ g_hrStepsPerFlap = MechStepsPerFlapQ
    /\ sensor = [a \in Axes |-> "ok"]
    /\ pos = [a \in Axes |-> 0]
    /\ pc = "engine"

engineFrame ==
    UNCHANGED <<hoursMotor, clockVars, cfgVars, manVars, envVars, runVars,
                issuedSteps, flapsDone, lastRehomeCheckMinute, pos, ops, ret, pc>>

engineCall ==
    /\ pc = "engine"
    /\ calls < MaxEngineCalls
    /\ calls' = calls + 1
    /\ engineFrame

EngSetSpeed(stepsPerSecond) ==
    /\ engineCall
    /\ minutesMotor' = setSpeed(minutesMotor, stepsPerSecond)
    /\ result' = call("setSpeed", stepsPerSecond, minutesMotor, FALSE)
    /\ UNCHANGED micros

EngMoveSteps(numSteps, dt) ==
    /\ engineCall
    /\ micros' = U32(micros + dt)
    /\ minutesMotor' = moveSteps(minutesMotor, numSteps, micros')
    /\ result' = call("moveSteps", numSteps, minutesMotor, FALSE)

EngUpdate(dt) ==
    /\ engineCall
    /\ micros' = U32(micros + dt)
    /\ minutesMotor' = update(minutesMotor, micros')
    /\ result' = call("update", dt, minutesMotor, updateResult(minutesMotor, micros'))

EngStop ==
    /\ engineCall
    /\ minutesMotor' = stop(minutesMotor)
    /\ result' = call("stop", 0, minutesMotor, FALSE)
    /\ UNCHANGED micros

NextEngine ==
    \/ \E s \in SpeedChoices : EngSetSpeed(s)
    \/ \E n \in StepCounts, dt \in TickChoices : EngMoveSteps(n, dt)
    \/ \E dt \in TickChoices : EngUpdate(dt)
    \/ EngStop

SpecEngine == InitEngine /\ [][NextEngine]_vars

----------------------------------------------------------------------------
(* The pure functions of the time source and the configuration, applied    *)
(* once to inputs drawn by the initial state.                              *)

Hours == 0..23

\* the hour is read from the manual clock or from the NTP client
InitHour ==
    /\ InitHomed("hour")
    /\ g_minStepsPerFlap = 373 /\ g_hrStepsPerFlap = 373
    /\ g_is24HourDisplay \in BOOLEAN
    /\ g_isManualTimeMode \in BOOLEAN
    /\ g_manualHour \in Hours /\ g_manualMinute = 10
    /\ ntp \in { [day |-> Tuesday, hour |-> h, minute |-> 0] : h \in {g_manualHour, 23 - g_manualHour} }
    /\ g_quietHoursEnabled = FALSE
    /\ quietA = DefaultA /\ quietB = DefaultB
    /\ wifiConnected = TRUE

\* getTargetHourFlap(getCurrentHour())
EvalHourFlap ==
    /\ pc = "hour"
    /\ calls = 0
    /\ calls' = 1
    /\ result' = getTargetHourFlap(Globals, getCurrentHour(Globals))
    /\ pc' = "hour"
    /\ UNCHANGED <<motorVars, clockVars, cfgVars, manVars, envVars, runVars,
                   issuedSteps, flapsDone, lastRehomeCheckMinute, micros, pos, ops, ret>>

NextHour == EvalHourFlap

SpecHour == InitHour /\ [][NextHour]_vars

\* schedules, hours and days the quiet-hours predicate is evaluated on
ScheduleChoices ==
    { DefaultA, DefaultB,
      [start |-> 7,  end |-> 21, days |-> 30],
      [start |-> 10, end |-> 10, days |-> 127],
      [start |-> 22, end |-> 23, days |-> 0] }
QuietHoursProbed == {0, 6, 7, 9, 10, 20, 21, 22, 23}
DaysProbed == {0, Tuesday, Friday, Saturday}

InitQuiet ==
    /\ InitHomed("quiet")
    /\ g_minStepsPerFlap = 373 /\ g_hrStepsPerFlap = 373
    /\ g_is24HourDisplay = FALSE
    /\ g_isManualTimeMode \in BOOLEAN
    /\ g_manualHour = 22 /\ g_manualMinute = 10
    /\ g_quietHoursEnabled \in BOOLEAN
    /\ quietA \in ScheduleChoices /\ quietB \in ScheduleChoices
    /\ ntp \in { [day |-> d, hour |-> h, minute |-> 0] : d \in DaysProbed, h \in QuietHoursProbed }
    /\ wifiConnected \in BOOLEAN

\* isInQuietHours()
EvalQuiet ==
    /\ pc = "quiet"
    /\ calls = 0
    /\ calls' = 1
    /\ result' = isInQuietHours(Globals)
    /\ pc' = "quiet"
    /\ UNCHANGED <<motorVars, clockVars, cfgVars, manVars, envVars, runVars,
                   issuedSteps, flapsDone, lastRehomeCheckMinute, micros, pos, ops, ret>>

NextQuiet == EvalQuiet

SpecQuiet == InitQuiet /\ [][NextQuiet]_vars

----------------------------------------------------------------------------
(* Properties of the orchestrator in the main loop (Spec).  ops holds the  *)
(* events of the last step: of setup(), or of one pass of loop().          *)

\* the events by which an axis is commanded or moves
MotionKinds == {"moveSteps", "moveFlaps", "advance", "phase"}

\* the indices of the events of kind k
eventsOf(o, k) == { i \in DOMAIN o : o[i].k = k }

\* the first index after i of an event of kind k; 0 if there is none
nextOf(o, i, k) ==
    LET later == { j \in eventsOf(o, k) : j > i }
    IN  IF later = {} THEN 0 ELSE CHOOSE j \in later : \A x \in later : j <= x

\* whether ops holds the events of a pass of loop()
loopPass == eventsOf(ops, "update") # {}

\* C3: no step command (moveSteps, flap advance, sweep, homing move) is
\* issued and no phase advance happens while the orchestrator state is
\* QUIET_MODE, and no engine is in flight in a state with QUIET_MODE.
C3_QuietModeStill ==
    /\ \A i \in DOMAIN ops : ops[i].k \in MotionKinds => ops[i].st # QUIET_MODE
    /\ state = QUIET_MODE => ~minutesMotor.isMoving /\ ~hoursMotor.isMoving

\* C3 witness: a pass of loop() whose update() began in QUIET_MODE, found
\* the quiet hours over and drove the axes to the current time
C3_Witness ==
    \E i \in eventsOf(ops, "update") :
        /\ ops[i].st = QUIET_MODE
        /\ \E j \in eventsOf(ops, "phase") : j > i

\* C4: while the quiet-hours predicate is true no pass of loop() makes a
\* physical step on either axis, whatever it runs: the /save handler,
\* update(), the fixed-time re-home.
C4_NoStepInQuietHours ==
    loopPass => \A i \in eventsOf(ops, "phase") : ~ops[i].q

\* the pass of loop() taken from a state where update() must find drift:
\* RUNNING, no quiet hours, both engines at rest, an endstop LOW on an axis
\* whose flap index is not home; no request is handled in the pass
DriftTick ==
    /\ pc = "loop" /\ state = RUNNING
    /\ ~isInQuietHours(Globals)
    /\ ~minutesMotor.isMoving /\ ~hoursMotor.isMoving
    /\ \/ endstopLow(sensor["min"], pos["min"]) /\ currentMinuteFlap # MINUTE_HOME_OFFSET
       \/ endstopLow(sensor["hr"], pos["hr"]) /\ currentHourFlap # HOUR_HOME_POSITION
    /\ requests' = requests
    /\ eventsOf(ops', "update") # {}

\* the events of update() in the pass ops' holds
tickEvents ==
    LET u == nextOf(ops', 0, "update")
        r == nextOf(ops', u, "rehomeCheck")
    IN  { i \in DOMAIN ops' : u < i /\ i < r }

\* C5: a tick that must find drift calls initialize() exactly once and
\* issues neither the one-flap minute advance nor the alignment sweep.
C5_DriftRecovery ==
    [][DriftTick =>
         /\ Cardinality({ i \in tickEvents : ops'[i].k = "initialize" }) = 1
         /\ \A i \in tickEvents :
              /\ ops'[i].k # "advance"
              /\ ~(ops'[i].k = "moveSteps" /\ ops'[i].a = "min"
                     /\ ops'[i].n = MOTOR_STEPS_PER_REVOLUTION * AlignRevolutions)]_vars

\* C5 witness: a pass of loop() in which checkForDrift found the hours
\* wheel on its endstop and re-initialised
C5_Witness ==
    /\ loopPass
    /\ \E i \in eventsOf(ops, "log") :
         /\ ops[i].a = "DRIFT DETECTED on hours."
         /\ nextOf(ops, i, "initialize") = i + 1

\* C6: once the state is ERROR_STATE it stays ERROR_STATE and no further
\* step command is issued, whatever the main loop runs.
C6_ErrorTerminal ==
    [][state = ERROR_STATE =>
         /\ state' = ERROR_STATE
         /\ eventsOf(ops', "moveSteps") = {}]_vars

\* whether the initialize() call at index i homed axis a
homedIn(o, i, a) ==
    \E j \in eventsOf(o, "home") :
        i < j /\ j < nextOf(o, i, "return") /\ o[j].a = a /\ o[j].n = 1

\* C7: initialize() returns false, with the state ERROR_STATE, if the
\* homing of either axis failed; it returns true only if both succeeded,
\* and then with the state RUNNING or QUIET_MODE.
C7_InitializeOutcome ==
    \A i \in eventsOf(ops, "initialize") :
        LET r == nextOf(ops, i, "return")
        IN  /\ r # 0
            /\ ops[r].n = 1 <=> (homedIn(ops, i, "min") /\ homedIn(ops, i, "hr"))
            /\ ops[r].n = 0 => ops[r].st = ERROR_STATE
            /\ ops[r].n = 1 => ops[r].st \in {RUNNING, QUIET_MODE}

\* C7 witness: an initialize() in the main loop whose minutes homing
\* succeeded and whose hours homing failed
C7_Witness ==
    /\ loopPass
    /\ \E i \in eventsOf(ops, "initialize") :
         /\ homedIn(ops, i, "min") /\ ~homedIn(ops, i, "hr")
         /\ ops[nextOf(ops, i, "return")].n = 0

\* the events of the initialize() call at index i after its second homing
afterHoming(o, i) ==
    LET h1 == nextOf(o, i, "home")
        h2 == nextOf(o, h1, "home")
    IN  { j \in DOMAIN o : h2 < j /\ j < nextOf(o, i, "return") }

\* the mapping of the hour to its flap, by display mode
hourFlapOf(is24, h) ==
    IF is24 THEN h ELSE IF h = 0 \/ h = 12 THEN 12 ELSE IF h > 12 THEN h - 12 ELSE h

\* C8: a successful initialize() in quiet hours ends in QUIET_MODE with no
\* flap move after the homing, both flap indices home and both accumulators
\* zero; outside quiet hours it drives the minutes axis to the current
\* minute, then the hours axis to the hour's flap, and only then sets
\* RUNNING.
C8_InitializeSuccess ==
    \A i \in eventsOf(ops, "initialize") :
        LET r == nextOf(ops, i, "return")
            T == afterHoming(ops, i)
            moves == { j \in T : ops[j].k = "moveFlaps" }
            t  == nextOf(ops, i, "time")
            mm == nextOf(ops, t, "moveFlaps")
            mh == nextOf(ops, mm, "moveFlaps")
        IN  ops[r].n = 1 =>
              IF ops[r].q
              THEN /\ ops[r].st = QUIET_MODE
                   /\ \A j \in T : ops[j].k \notin MotionKinds
                   /\ state = QUIET_MODE
                   /\ currentMinuteFlap = MINUTE_HOME_OFFSET
                   /\ currentHourFlap = HOUR_HOME_POSITION
                   /\ minuteStepError = 0 /\ hourStepError = 0
              ELSE /\ ops[r].st = RUNNING
                   /\ t \in T /\ moves = {mm, mh} /\ t < mm /\ mm < mh
                   /\ ops[mm].a = "min" /\ ops[mh].a = "hr"
                   /\ ops[mm].n = ((ops[t].n % MinuteWheel) - MINUTE_HOME_OFFSET + MinuteWheel)
                                     % MinuteWheel
                   /\ ops[mh].n = (hourFlapOf(g_is24HourDisplay, ops[t].n \div MinuteWheel)
                                     - HOUR_HOME_POSITION + HourWheel) % HourWheel
                   /\ \A j \in T :
                        /\ (ops[j].k \in MotionKinds /\ ops[j].a = "min") => j < mh
                        /\ (ops[j].k \in MotionKinds /\ ops[j].a = "hr") => j >= mh
                        /\ ops[j].k \in MotionKinds => ops[j].st = IDLE
                        /\ ops[j].k = "state" => (ops[j].a = RUNNING /\ j = r - 1)

\* C8 witness: a successful initialize() outside quiet hours that moved
\* both axes, and before it in the same run none in quiet hours
C8_Witness ==
    /\ loopPass
    /\ \E i \in eventsOf(ops, "initialize") :
         LET r == nextOf(ops, i, "return")
             t == nextOf(ops, i, "time")
         IN  /\ ops[r].n = 1 /\ ~ops[r].q /\ t # 0
             /\ ops[nextOf(ops, t, "moveFlaps")].n > 0
             /\ \E j \in eventsOf(ops, "phase") : j > t /\ ops[j].a = "hr"

\* a successful initialize() in quiet hours, in a pass of loop()
InitializedIntoQuiet ==
    /\ loopPass
    /\ \E i \in eventsOf(ops, "return") : ops[i].n = 1 /\ ops[i].q

\* the globals with quiet hours enabled, schedule s as A and as B, and the
\* time source at hour h of day d
probed(g, s, h, d) ==
    [g EXCEPT !.quietEnabled = TRUE, !.A = s, !.B = s, !.manualHour = h,
              !.ntp = [day |-> d, hour |-> h, minute |-> 0]]

\* C11: while the time source has no day of the week (manual time mode, or
\* no WiFi link) isInQuietHours() is false for every hour, day and schedule,
\* every operation of a pass of loop() finds it false, and the pass does not
\* end in QUIET_MODE.
C11_NoDayNoQuiet ==
    (g_isManualTimeMode \/ ~wifiConnected) =>
        /\ \A s \in ScheduleChoices, h \in QuietHoursProbed, d \in DaysProbed :
              ~isInQuietHours(probed(Globals, s, h, d))
        /\ \A i \in DOMAIN ops : ~ops[i].q
        /\ ops # <<>> => state # QUIET_MODE

\* C11 witness: the WiFi link is down at an hour the schedules cover, and
\* the update() of this pass of loop() began in QUIET_MODE and left it
C11_Witness ==
    /\ ~g_isManualTimeMode /\ ~wifiConnected /\ g_quietHoursEnabled
    /\ isInQuietHours([Globals EXCEPT !.wifi = TRUE])
    /\ \E i \in eventsOf(ops, "update") : ops[i].st = QUIET_MODE
    /\ state = RUNNING

----------------------------------------------------------------------------
(* Properties of the axis operations (SpecAxis, SpecMoveTo) *)

\* the accumulator of axis a
errOf(a) == IF a = "min" THEN minuteStepError ELSE hourStepError

\* the flap index of axis a
flapOf(a) == IF a = "min" THEN currentMinuteFlap ELSE currentHourFlap

\* C1: on an axis that starts with a zero accumulator, after every single
\* flap move of every moveFlaps call the accumulator is at most half a step
\* in magnitude, and the steps commanded so far differ from (flaps moved so
\* far) x S by at most half a step (quantities in quarter steps: 0.5 is 2).
C1_DriftBounded ==
    \A a \in Axes :
        LET S == stepsPerFlapOf(Globals, a)
            I == stepCommands(ops, a)
            stepsBefore == issuedSteps[a] - stepsOf(ops, I)
            flapsBefore == flapsDone[a] - Cardinality(I)
        IN  /\ abs(errOf(a)) <= 2
            /\ abs(4 * issuedSteps[a] - flapsDone[a] * S) <= 2
            /\ \A i \in DOMAIN ops :
                 (ops[i].k = "accumulator" /\ ops[i].a = a) => abs(ops[i].n) <= 2
            /\ \A i \in I :
                 LET J == { j \in I : j <= i }
                 IN  abs(4 * (stepsBefore + stepsOf(ops, J))
                         - (flapsBefore + Cardinality(J)) * S) <= 2

\* C1 witness: a run of at least nine flaps at 93.5 steps per flap, whose
\* last call moved three flaps and left the accumulator half a step off
C1_Witness ==
    /\ pc = "axis"
    /\ g_minStepsPerFlap = 374
    /\ flapsDone["min"] >= 9
    /\ Cardinality(stepCommands(ops, "min")) = 3
    /\ abs(minuteStepError) = 2

\* C2: moveToAbsoluteFlap advances (target - current + wheelSize) mod
\* wheelSize flaps, a number in [0, wheelSize), issues only step commands
\* with a positive count and leaves the flap index on the target.
C2_ForwardOnly ==
    (pc = "moveTo" /\ calls > 0) =>
        LET a == result.a
            W == WheelSize(a)
            I == stepCommands(ops, a)
            flapsAdvanced == Cardinality(I)
        IN  /\ flapsAdvanced = (result.targetFlap - result.currentFlap + W) % W
            /\ flapsAdvanced \in 0..(W - 1)
            /\ \A i \in I : ops[i].n > 0
            /\ \A i \in DOMAIN ops : ops[i].k = "moveSteps" => ops[i].a = a
            /\ flapOf(a) = result.targetFlap

\* C2 witness: a second call whose target lies behind the current flap
C2_Witness ==
    /\ pc = "moveTo" /\ calls = 2
    /\ result.a = "min"
    /\ result.targetFlap < result.currentFlap
    /\ Cardinality(stepCommands(ops, "min")) > 0

\* C26: moveFlaps with flapsToMove = n at least 1 issues n step commands,
\* one per flap; each has the count round(stepsPerFlap + accumulator), the
\* accumulator becoming the residual of that rounding, and each is performed
\* to its last step, the engine idle, before the next is issued; with n at
\* or below 0 it issues no command and leaves accumulator and engine alone.
C26_OneCommandPerFlap ==
    [][pc = "axis" =>
         LET a == ops'[1].a
             n == ops'[1].n
             S == stepsPerFlapOf(Globals, a)
             acc(k) == IF k = 0 THEN errOf(a) ELSE ops'[3 * k - 1].n
             errAfter == IF a = "min" THEN minuteStepError' ELSE hourStepError'
             engineAfter == IF a = "min" THEN minutesMotor' ELSE hoursMotor'
         IN  /\ ops'[1].k = "moveFlaps" /\ n = result'
             /\ n <= 0 => /\ Len(ops') = 1
                          /\ UNCHANGED <<motorVars, clockVars, pos>>
             /\ n >= 1 =>
                  /\ Len(ops') = 1 + 3 * n
                  /\ Cardinality(stepCommands(ops', a)) = n
                  /\ \A k \in 1..n :
                       /\ ops'[3 * k - 1].k = "accumulator" /\ ops'[3 * k - 1].a = a
                       /\ ops'[3 * k].k = "moveSteps" /\ ops'[3 * k].a = a
                       /\ ops'[3 * k + 1].k = "phase" /\ ops'[3 * k + 1].a = a
                       /\ ops'[3 * k].n = roundQ(S + acc(k - 1))
                       /\ acc(k) = S + acc(k - 1) - 4 * ops'[3 * k].n
                       /\ ops'[3 * k + 1].n = ops'[3 * k].n
                  /\ errAfter = acc(n)
                  /\ ~engineAfter.isMoving
                  /\ engineAfter.stepsMoved = ops'[3 * n].n]_vars

\* C26 witness: a call for five flaps at 93.25 steps per flap on an
\* accumulator that was not zero, whose commands differ in their counts
C26_Witness ==
    /\ pc = "axis" /\ result = 5
    /\ g_minStepsPerFlap = 373
    /\ Cardinality(stepCommands(ops, "min")) = 5
    /\ flapsDone["min"] > 5
    /\ \E i, j \in stepCommands(ops, "min") : ops[i].n # ops[j].n

----------------------------------------------------------------------------
(* Properties of the pure functions (SpecHour, SpecQuiet) *)

\* C9: in 24-hour mode the hour flap is the hour; in 12-hour mode hours 0
\* and 12 show flap 12, hours 1..11 their own flap, hours 13..23 flap
\* hour - 12, so that the 12-hour flap is always in 1..12.
C9_HourFlap ==
    (pc = "hour" /\ calls = 1) =>
        LET h == getCurrentHour(Globals)
        IN  IF g_is24HourDisplay THEN result = h
            ELSE /\ (h \in {0, 12} => result = 12)
                 /\ (h \in 1..11 => result = h)
                 /\ (h \in 13..23 => result = h - 12)
                 /\ result \in 1..12

\* C9 witness: noon evaluated in 12-hour mode
C9_Witness ==
    /\ pc = "hour" /\ calls = 1
    /\ ~g_is24HourDisplay
    /\ getCurrentHour(Globals) = 12
    /\ result = 12

\* the days of the week (0 = Sunday) a day mask of ScheduleChoices names
maskDays(days) ==
    CASE days = 30  -> {1, 2, 3, 4}
      [] days = 97  -> {0, 5, 6}
      [] days = 127 -> 0..6
      [] days = 0   -> {}

\* whether schedule s covers hour h of day d
covers(s, d, h) ==
    /\ d \in maskDays(s.days)
    /\ IF s.start > s.end THEN (h >= s.start \/ h < s.end)
       ELSE (s.start <= h /\ h < s.end)

\* C10: with quiet hours enabled and the day of the week available, the
\* predicate is true iff schedule A or schedule B has today's bit set and
\* its window active (start > end: hour >= start or hour < end; otherwise
\* start <= hour < end, so start = end is never active); 21-7 on Mon..Thu
\* is quiet on Tuesday at 22, not on Tuesday at 10 and not on Friday at 22
\* unless the other schedule covers it.
C10_QuietHours ==
    (pc = "quiet" /\ calls = 1 /\ g_quietHoursEnabled /\ isNtpActive(Globals)) =>
        /\ result = (covers(quietA, ntp.day, ntp.hour) \/ covers(quietB, ntp.day, ntp.hour))
        /\ (quietA.start = quietA.end /\ quietB.start = quietB.end) => result = FALSE
        /\ (quietA = DefaultA /\ ntp.day = Tuesday /\ ntp.hour = 22) => result = TRUE
        /\ (quietA = DefaultA /\ ntp.hour \in {10, 22} /\ ntp.day \in {Tuesday, Friday}
              /\ ~(ntp.day = Tuesday /\ ntp.hour = 22)
              /\ ~covers(quietB, ntp.day, ntp.hour)) => result = FALSE

\* C10 witness: schedule A alone makes Tuesday 22h quiet, schedule B being
\* the weekend schedule
C10_Witness ==
    /\ pc = "quiet" /\ calls = 1 /\ g_quietHoursEnabled /\ isNtpActive(Globals)
    /\ quietA = DefaultA /\ quietB = DefaultB
    /\ ntp.day = Tuesday /\ ntp.hour = 22
    /\ result = TRUE

----------------------------------------------------------------------------
(* Properties of the homing (SpecHome) *)

homeOf(a) == IF a = "min" THEN MINUTE_HOME_OFFSET ELSE HOUR_HOME_POSITION

\* C12: every successful homing of an axis leaves its tracked flap index at
\* the home index and its accumulator at 0, whatever they were before; a
\* second successful homing of the same axis leaves the values of the first.
C12_HomingIdempotent ==
    pc = "home" =>
        /\ \A i \in DOMAIN result :
              result[i].ok =>
                  result[i].flapAfter = homeOf(result[i].a) /\ result[i].errAfter = 0
        /\ \A i, j \in DOMAIN result :
              (i < j /\ result[i].a = result[j].a /\ result[i].ok /\ result[j].ok) =>
                  /\ result[j].flapAfter = result[i].flapAfter
                  /\ result[j].errAfter = result[i].errAfter
                  /\ flapOf(result[j].a) = result[i].flapAfter
                  /\ errOf(result[j].a) = result[i].errAfter

\* C12 witness: the minutes axis homed twice in a row, the first time from
\* an index and an accumulator that were not the reset values
C12_Witness ==
    /\ pc = "home" /\ Len(result) = 2
    /\ result[1].a = "min" /\ result[2].a = "min"
    /\ result[1].ok /\ result[2].ok
    /\ result[1].flapBefore # MINUTE_HOME_OFFSET /\ result[1].errBefore # 0
    /\ result[1].posBefore # 0

\* C17: homeMotor returns true only if the endstop read LOW during the move,
\* the engine stopped where it did; it returns false if the endstop never
\* read LOW before the timeout or the end of the move; either way the engine
\* is at rest with its lines LOW, and a failure changes neither the state
\* nor the tracked index nor the accumulator.
C17_HomeResult ==
    pc = "home" =>
        \A i \in DOMAIN result :
            LET r == result[i]
                d == stepsToEndstop(r.a, sensor[r.a], r.posBefore)
            IN  /\ ~r.moving /\ r.pins = LOW4
                /\ r.stateAfter = IDLE
                /\ r.ok => /\ endstopLow(sensor[r.a], r.posAfter)
                           /\ r.steps = d
                /\ r.ok <=> (d >= 0 /\ d <= MOTOR_STEPS_PER_REVOLUTION * HomingRevolutions
                               /\ d * (MicrosPerSecond \div HOMING_SPEED_STEPS_PER_SEC)
                                    <= (HomingTimeoutMs + 1) * 1000)
                /\ ~r.ok => /\ r.flapAfter = r.flapBefore /\ r.errAfter = r.errBefore
                            /\ r.steps > 0
                /\ i = Len(result) => ret = r.ok

\* C17 witness: one axis homed after turning its wheel to the endstop, the
\* other gave up with its endstop never LOW
C17_Witness ==
    /\ pc = "home" /\ Len(result) = 2
    /\ result[1].ok /\ result[1].steps > 0
    /\ ~result[2].ok /\ sensor[result[2].a] = "stuckOpen"

----------------------------------------------------------------------------
(* Properties of the StepperMotor (SpecEngine) *)

\* steps of the commanded move the engine has not performed
remaining(m) == m.targetSteps - m.stepsMoved

\* C13: after any sequence of setSpeed, moveSteps, update and stop the
\* moving flag is true exactly if the remaining step count is above 0.
C13_MovingIffRemaining ==
    pc = "engine" => (minutesMotor.isMoving <=> remaining(minutesMotor) > 0)

\* whether the last call on the engine was op
lastCall(op) == pc = "engine" /\ calls > 0 /\ result.op = op

\* C14: moveSteps(0) leaves the moving flag, the target, the moved-step
\* counter, the direction and the phase as they were, on an idle engine and
\* on one in the middle of a move.
C14_MoveZeroNoOp ==
    (lastCall("moveSteps") /\ result.n = 0) =>
        /\ minutesMotor.isMoving = result.before.isMoving
        /\ minutesMotor.targetSteps = result.before.targetSteps
        /\ minutesMotor.stepsMoved = result.before.stepsMoved
        /\ minutesMotor.direction = result.before.direction
        /\ minutesMotor.currentStepInSequence = result.before.currentStepInSequence

\* phase advances between engine b and engine m one call later
steppedBy(b, m) == m.stepsMoved - b.stepsMoved

\* C15: update() on an idle engine returns false and changes nothing; on a
\* moving engine it makes at most one phase advance, however long the last
\* one is overdue; its result is the moving flag after the call.
C15_UpdateSafe ==
    lastCall("update") =>
        LET b == result.before
            m == minutesMotor
        IN  /\ ~b.isMoving => (~result.ret /\ m = b)
            /\ b.isMoving =>
                  /\ steppedBy(b, m) \in {0, 1}
                  /\ steppedBy(b, m) = 0 => m = b
                  /\ steppedBy(b, m) = 1 =>
                        /\ m.currentStepInSequence
                             = (b.currentStepInSequence + b.direction) % PhaseCount
                        /\ m.lastStepTime = U32(b.lastStepTime + b.stepInterval)
            /\ result.ret = m.isMoving

\* C15 witness: an update() that found the step overdue by several
\* intervals, made one phase advance and left the engine moving
C15_Witness ==
    /\ lastCall("update")
    /\ result.before.isMoving /\ result.before.stepInterval > 0
    /\ U32(micros - result.before.lastStepTime) >= 2 * result.before.stepInterval
    /\ steppedBy(result.before, minutesMotor) = 1
    /\ result.ret

\* C16: after stop() the engine is not moving and its four lines are LOW,
\* an update() at any later reading changes nothing, and a second stop()
\* leaves what the first left.
C16_StopIdempotent ==
    lastCall("stop") =>
        /\ ~minutesMotor.isMoving /\ minutesMotor.pins = LOW4
        /\ stop(minutesMotor) = minutesMotor
        /\ \A dt \in TickChoices :
              /\ update(minutesMotor, U32(micros + dt)) = minutesMotor
              /\ ~updateResult(minutesMotor, U32(micros + dt))

\* C16 witness: stop() in the middle of a move, a phase energised
C16_Witness ==
    /\ lastCall("stop")
    /\ result.before.isMoving /\ result.before.pins # LOW4
    /\ remaining(minutesMotor) > 0

\* C25: setSpeed(s) sets the step interval to floor(1000000 / s) when s is
\* above 0; with s at or below 0 the engine makes no phase advance at any
\* later update(); the call leaves the moving flag, the target, the
\* moved-step counter and the phase as they were.
C25_SetSpeedConfig ==
    lastCall("setSpeed") =>
        /\ result.n > 0 => minutesMotor.stepInterval = MicrosPerSecond \div result.n
        /\ result.n <= 0 =>
              \A dt \in TickChoices :
                  steppedBy(minutesMotor, update(minutesMotor, U32(micros + dt))) = 0
        /\ minutesMotor.isMoving = result.before.isMoving
        /\ minutesMotor.targetSteps = result.before.targetSteps
        /\ minutesMotor.stepsMoved = result.before.stepsMoved
        /\ minutesMotor.currentStepInSequence = result.before.currentStepInSequence

----------------------------------------------------------------------------
(* Properties of the error display (Spec) *)

\* C18: displaySystemError(hourFlapCode, minuteFlapCode) ends in ERROR_STATE
\* after homing each axis once; if both homed it drives the hours axis to
\* hourFlapCode, then the minutes axis to minuteFlapCode, and the tracked
\* indices are the codes; if one did not, it commands no flap move.
C18_DisplaySystemError ==
    \A i \in eventsOf(ops, "displaySystemError") :
        LET homes == { j \in eventsOf(ops, "home") : j > i }
            h1 == nextOf(ops, i, "home")
            h2 == nextOf(ops, h1, "home")
            after == { j \in DOMAIN ops : j > h2 }
            moves == { j \in after : ops[j].k = "moveFlaps" }
            mh == nextOf(ops, h2, "moveFlaps")
            mm == nextOf(ops, mh, "moveFlaps")
            hourFlapCode == ops[i].n \div MinuteWheel
            minuteFlapCode == ops[i].n % MinuteWheel
        IN  /\ state = ERROR_STATE
            /\ homes = {h1, h2} /\ h1 # 0 /\ h2 # 0
            /\ ops[h1].a = "min" /\ ops[h2].a = "hr"
            /\ \A j \in after : ops[j].st = ERROR_STATE
            /\ IF ops[h1].n = 1 /\ ops[h2].n = 1
               THEN /\ moves = {mh, mm} /\ mh # 0 /\ mm # 0
                    /\ ops[mh].a = "hr" /\ ops[mm].a = "min"
                    /\ ops[mh].n = (hourFlapCode - HOUR_HOME_POSITION + HourWheel) % HourWheel
                    /\ ops[mm].n = (minuteFlapCode - MINUTE_HOME_OFFSET + MinuteWheel)
                                      % MinuteWheel
                    /\ \A j \in after :
                         (ops[j].k \in MotionKinds /\ ops[j].a = "hr") => j < mm
                    /\ currentHourFlap = hourFlapCode
                    /\ currentMinuteFlap = minuteFlapCode
               ELSE \A j \in after : ops[j].k \notin MotionKinds
            /\ ~minutesMotor.isMoving /\ ~hoursMotor.isMoving

\* C18 witness: an error display whose minutes homing succeeded and whose
\* hours homing failed
C18_Witness ==
    \E i \in eventsOf(ops, "displaySystemError") :
        /\ ops[nextOf(ops, i, "home")].n = 1
        /\ ops[nextOf(ops, nextOf(ops, i, "home"), "home")].n = 0
        /\ state = ERROR_STATE

\* an error display with both axes homed and the code on the flaps
CodeDisplayed ==
    \E i \in eventsOf(ops, "displaySystemError") :
        /\ ops[i].n = ERROR_CODE_WEB_FAIL_HR * MinuteWheel + ERROR_CODE_WEB_FAIL_MIN
        /\ currentHourFlap = ERROR_CODE_WEB_FAIL_HR
        /\ currentMinuteFlap = ERROR_CODE_WEB_FAIL_MIN

\* whether the two flaps show the diagnostic digit d: one on d, the other on 0
digitShown(d) == {currentHourFlap, currentMinuteFlap} = {0, d}

\* C19: when initialize() fails on the minutes homing (the hours axis homed)
\* the flaps show the digit 3, and when it fails on the hours homing (the
\* minutes axis homed) they show the digit 4.
C19_ErrorCodes ==
    \A i \in eventsOf(ops, "initialize") :
        nextOf(ops, i, "initialize") = 0 =>
            /\ (~homedIn(ops, i, "min") /\ homedIn(ops, i, "hr")) => digitShown(3)
            /\ (homedIn(ops, i, "min") /\ ~homedIn(ops, i, "hr")) => digitShown(4)

----------------------------------------------------------------------------
(* Properties of one tick, SplitFlapClock::update() (Spec) *)

\* the pass of loop() from ERROR_STATE that handles no request and finds no
\* re-homing time: all it runs is update()
ErrorTick ==
    /\ pc = "loop" /\ state = ERROR_STATE
    /\ requests' = requests
    /\ eventsOf(ops', "update") # {}
    /\ \A i \in eventsOf(ops', "rehomeCheck") : ops'[i].n = 0

\* the events of update() in ops, the call at index i
updateEvents(o, i) ==
    { j \in DOMAIN o : i < j /\ (nextOf(o, i, "rehomeCheck") = 0
                                   \/ j < nextOf(o, i, "rehomeCheck")) }

\* C20: update() in ERROR_STATE calls update() on no engine and does
\* nothing else, and the tick leaves both engines, the state, the tracked
\* indices and the accumulators as they were; in every other state it calls
\* update() on the minutes engine, then on the hours engine, before
\* anything else.
C20_TickByState ==
    /\ [](\A i \in eventsOf(ops, "update") :
            LET T  == updateEvents(ops, i)
                e1 == nextOf(ops, i, "engineUpdate")
                e2 == nextOf(ops, e1, "engineUpdate")
            IN  IF ops[i].st = ERROR_STATE
                THEN T = {}
                ELSE /\ e1 = i + 1 /\ e2 \in T
                     /\ ops[e1].a = "min" /\ ops[e2].a = "hr"
                     /\ \A j \in T : (j > e1 /\ j < e2) =>
                          (ops[j].k = "phase" /\ ops[j].a = "min" /\ ops[j].n = 1)
                     /\ \A j \in T : ops[j].k = "engineUpdate" => j \in {e1, e2})
    /\ [][ErrorTick => UNCHANGED <<motorVars, clockVars, pos>>]_vars

\* C20 witness: a pass of loop() whose update() ran in ERROR_STATE
C20_Witness ==
    /\ state = ERROR_STATE
    /\ eventsOf(ops, "request") = {}
    /\ \E i \in eventsOf(ops, "update") :
         /\ ops[i].st = ERROR_STATE
         /\ ops[i + 1].k = "rehomeCheck" /\ ops[i + 1].n = 0

\* an update() that found the minutes engine in its sweep with a step due
SweepTick ==
    \E i \in eventsOf(ops, "engineUpdate") :
        /\ ops[i].a = "min" /\ ops[i].n = 1 /\ ops[i].st = MINUTE_ALIGN
        /\ i + 1 \in eventsOf(ops, "phase")

----------------------------------------------------------------------------
(* Properties of what one tick commands (Spec) *)

\* the flap-level commands among the events at the indices T: a moveFlaps
\* call that moves at least one flap, the alignment sweep
flapCommands(o, T) ==
    { j \in T : \/ o[j].k = "moveFlaps" /\ o[j].n > 0
                \/ o[j].k = "moveSteps" /\ o[j].a = "min"
                     /\ o[j].n = MOTOR_STEPS_PER_REVOLUTION * AlignRevolutions }

\* C21: update() issues at most one flap-level command (a flap advance, an
\* absolute move of one axis, a sweep) per call, in every state.
C21_OneCommandPerTick ==
    \A i \in eventsOf(ops, "update") :
        Cardinality(flapCommands(ops, updateEvents(ops, i))) <= 1

----------------------------------------------------------------------------
(* Runs of one move of the minutes engine as constructed against the true  *)
(* time: micros() starts anywhere near its wrap, the move is started, and  *)
(* update() is called after any of TimingTicks microseconds.  result keeps *)
(* the last call together with the true time gone by since the engine's    *)
(* last scheduled step time: elapsed at the call, lag after it.            *)

TimingSpeeds == {NORMAL_SPEED_STEPS_PER_SEC, 250000}
TimingStarts == {0, Wrap - 1540, Wrap - 3, Wrap - 1}
TimingTicks == {0, 1, 3, 4, 1537, 1538, 3100, Wrap - 1539}
TimingSteps == {2, -5}

timed(op, n, before, r, elapsedAtCall, lag) ==
    [op |-> op, n |-> n, before |-> before, ret |-> r,
     elapsed |-> elapsedAtCall, lag |-> lag]

\* motor.setSpeed(s); motor.moveSteps(n) with micros() at some reading
TimingStart(s, n, start) ==
    /\ pc = "engine"
    /\ calls = 0
    /\ calls' = 1
    /\ micros' = start
    /\ minutesMotor' = moveSteps(setSpeed(minutesMotor, s), n, start)
    /\ result' = timed("moveSteps", n, minutesMotor, FALSE, 0, 0)
    /\ engineFrame

\* update() dt microseconds after the previous call, less than one period
\* of the counter after the last scheduled step time
TimingUpdate(dt) ==
    /\ pc = "engine"
    /\ calls > 0 /\ calls < MaxEngineCalls
    /\ minutesMotor.isMoving
    /\ result.lag + dt < Wrap
    /\ calls' = calls + 1
    /\ micros' = U32(micros + dt)
    /\ minutesMotor' = update(minutesMotor, micros')
    /\ result' = timed("update", dt, minutesMotor, updateResult(minutesMotor, micros'),
                       result.lag + dt,
                       IF minutesMotor'.stepsMoved # minutesMotor.stepsMoved
                       THEN result.lag + dt - minutesMotor.stepInterval
                       ELSE result.lag + dt)
    /\ engineFrame

NextTiming ==
    \/ \E s \in TimingSpeeds, n \in TimingSteps, start \in TimingStarts : TimingStart(s, n, start)
    \/ \E dt \in TimingTicks : TimingUpdate(dt)

SpecTiming == InitEngine /\ [][NextTiming]_vars

\* C22: with micros() a fixed-width counter that wraps, update() on a moving
\* engine makes a phase advance exactly if at least stepInterval
\* microseconds of true time have gone by since the last scheduled step
\* time (less than one period of the counter), also when the counter wrapped
\* in between; the scheduled step time then moves on by one interval.
C22_WrapSafeTiming ==
    (pc = "engine" /\ calls > 0) =>
        /\ minutesMotor.isMoving =>
              U32(micros - minutesMotor.lastStepTime) = result.lag
        /\ result.op = "update" =>
              LET b == result.before
              IN  /\ steppedBy(b, minutesMotor) = 1 <=> result.elapsed >= b.stepInterval
                  /\ steppedBy(b, minutesMotor) = 0 <=> result.elapsed < b.stepInterval
                  /\ steppedBy(b, minutesMotor) = 1 =>
                        minutesMotor.lastStepTime = U32(b.lastStepTime + b.stepInterval)

\* C22 witness: an update() that made a step with the counter wrapped since
\* the last scheduled step time, and left the move under way
C22_Witness ==
    /\ pc = "engine" /\ calls > 0 /\ result.op = "update"
    /\ micros < result.before.lastStepTime
    /\ steppedBy(result.before, minutesMotor) = 1
    /\ minutesMotor.isMoving

----------------------------------------------------------------------------
(* Runs of the moves of one engine as constructed: moveSteps with a count  *)
(* other than 0 on the minutes engine (reversed) or the hours engine, at   *)
(* any of the speeds and paces of the engine runs, then update() at        *)
(* any pace, and moveSteps again at any point, also in mid-move.  result   *)
(* keeps the move last commanded and what was seen of it since: the phase  *)
(* advances counted on the phase index, and whether each went one place    *)
(* in the commanded direction.                                             *)

engineOf(a) == IF a = "min" THEN minutesMotor ELSE hoursMotor

\* the place the phase index goes to from p on a step of the move of n
\* steps: sign(n), turned round on the reversed engine
phaseAfter(p, n, reversed) ==
    (p + (IF (n > 0) # reversed THEN 1 ELSE -1)) % PhaseCount

moveFrame ==
    UNCHANGED <<clockVars, cfgVars, manVars, envVars, runVars, issuedSteps, flapsDone,
                lastRehomeCheckMinute, pos, ops, ret, pc>>

\* motor.setSpeed(s) once, then motor.moveSteps(n), on the engine of axis a
MoveCommand(a, s, n, dt) ==
    /\ pc = "engine"
    /\ calls < MaxEngineCalls
    /\ calls > 0 => (a = result.a /\ s = result.speed)
    /\ calls' = calls + 1
    /\ micros' = U32(micros + dt)
    /\ LET m == IF calls = 0 THEN setSpeed(engineOf(a), s) ELSE engineOf(a)
       IN  /\ minutesMotor' = IF a = "min" THEN moveSteps(m, n, micros') ELSE minutesMotor
           /\ hoursMotor' = IF a = "hr" THEN moveSteps(m, n, micros') ELSE hoursMotor
           /\ result' = [a |-> a, speed |-> s, n |-> n, advances |-> 0, inStep |-> TRUE,
                         restarted |-> m.isMoving,
                         dropped |-> m.targetSteps - m.stepsMoved]
    /\ moveFrame

\* motor.update() on the engine last commanded
MoveUpdate(dt) ==
    /\ pc = "engine"
    /\ calls > 0 /\ calls < MaxEngineCalls
    /\ calls' = calls + 1
    /\ micros' = U32(micros + dt)
    /\ LET a  == result.a
           m  == engineOf(a)
           m1 == update(m, micros')
           p  == m.currentStepInSequence
           p1 == m1.currentStepInSequence
       IN  /\ minutesMotor' = IF a = "min" THEN m1 ELSE minutesMotor
           /\ hoursMotor' = IF a = "hr" THEN m1 ELSE hoursMotor
           /\ result' = [result EXCEPT
                           !.advances = IF p1 # p THEN @ + 1 ELSE @,
                           !.inStep = @ /\ (p1 = p \/ p1 = phaseAfter(p, result.n,
                                                                     m.reverseDirection))]
    /\ moveFrame

NextMove ==
    \/ \E a \in Axes, s \in SpeedChoices, n \in StepCounts \ {0}, dt \in TickChoices :
          MoveCommand(a, s, n, dt)
    \/ \E dt \in TickChoices : MoveUpdate(dt)

SpecMove == InitEngine /\ [][NextMove]_vars

\* C24: after moveSteps(n), n other than 0, and until the next moveSteps,
\* the engine makes exactly |n| phase advances: while it is moving it has
\* made fewer, once it is idle it has made |n| and its four lines are LOW;
\* each advance moves the phase index, always in 0..7, one place in the
\* direction sign(n), turned round on the reversed engine; a moveSteps in
\* mid-move starts the count again from 0 with the new target, the old
\* remainder dropped.
C24_ExactMove ==
    /\ minutesMotor.currentStepInSequence \in 0..(PhaseCount - 1)
    /\ hoursMotor.currentStepInSequence \in 0..(PhaseCount - 1)
    /\ (pc = "engine" /\ calls > 0) =>
          LET m == engineOf(result.a)
          IN  /\ result.inStep
              /\ m.targetSteps = abs(result.n)
              /\ m.stepsMoved = result.advances
              /\ m.isMoving => result.advances < abs(result.n)
              /\ ~m.isMoving => (result.advances = abs(result.n) /\ m.pins = LOW4)
              /\ m.isMoving /\ result.advances > 0 =>
                    m.pins = stepSequence[m.currentStepInSequence + 1]

\* C24 witness: a move of three steps commanded in the middle of another
\* move, which had steps left, and performed to its end
C24_Witness ==
    /\ pc = "engine" /\ calls > 0
    /\ result.restarted /\ result.dropped > 0
    /\ result.n = 3 /\ result.advances = 3
    /\ ~engineOf(result.a).isMoving

----------------------------------------------------------------------------
(* Properties of the fault log (Spec) *)

\* the last index before i of an event of kind k; 0 if there is none
prevOf(o, i, k) ==
    LET earlier == { j \in eventsOf(o, k) : j < i }
    IN  IF earlier = {} THEN 0 ELSE CHOOSE j \in earlier : \A x \in earlier : j >= x

\* what initialize() and checkForDrift() write to the log for their faults
FatalMessages == {"FATAL: Minute homing failed.", "FATAL: Hour homing failed."}
DriftMessages == {"DRIFT DETECTED on minutes.", "DRIFT DETECTED on hours."}

----------------------------------------------------------------------------
(* Properties of the RUNNING tick (Spec) *)

\* the pass of loop() from RUNNING that handles no request and whose
\* update() gets to read the minute: no quiet hours, both engines at rest,
\* no endstop LOW on an axis whose flap index is not home
MinuteTick ==
    /\ pc = "loop" /\ state = RUNNING
    /\ ~isInQuietHours(Globals)
    /\ ~minutesMotor.isMoving /\ ~hoursMotor.isMoving
    /\ ~(endstopLow(sensor["min"], pos["min"]) /\ currentMinuteFlap # MINUTE_HOME_OFFSET)
    /\ ~(endstopLow(sensor["hr"], pos["hr"]) /\ currentHourFlap # HOUR_HOME_POSITION)
    /\ requests' = requests
    /\ eventsOf(ops', "update") # {}

\* what update() did in the pass ops' holds after its two engine updates,
\* as the sequence of (kind, subject, number)
tickDid ==
    LET u == nextOf(ops', 0, "update")
        r == nextOf(ops', u, "rehomeCheck")
    IN  [ i \in 1..(r - u - 3) |->
            <<ops'[u + 2 + i].k, ops'[u + 2 + i].a, ops'[u + 2 + i].n>> ]

C28_PlainTick ==
    [][MinuteTick =>
         LET m == getCurrentMinute(Globals)
             S == g_minStepsPerFlap
             n == roundQ(S + minuteStepError)
             alone == \A i \in eventsOf(ops', "rehomeCheck") : ops'[i].n = 0
         IN  /\ m = currentMinuteFlap =>
                  /\ tickDid = <<>>
                  /\ alone => UNCHANGED <<motorVars, clockVars, pos>>
             /\ (m = currentMinuteFlap + 1 /\ m # 0) =>
                  /\ tickDid = << <<"advance", "min", m>>, <<"moveFlaps", "min", 1>>,
                                  <<"accumulator", "min", S + minuteStepError - 4 * n>>,
                                  <<"moveSteps", "min", n>>, <<"phase", "min", n>> >>
                  /\ alone =>
                       /\ currentMinuteFlap' = m
                       /\ minuteStepError' = S + minuteStepError - 4 * n
                       /\ ~minutesMotor'.isMoving /\ minutesMotor'.stepsMoved = n
                       /\ state' = RUNNING
                       /\ pos'["hr"] = pos["hr"]
                       /\ UNCHANGED <<hoursMotor, currentHourFlap, hourStepError>>]_vars

\* C28 witness: a pass of loop() whose update() began RUNNING, advanced the
\* minutes axis by one flap and noted the minute, nothing else in the pass
C28_Witness ==
    /\ loopPass /\ state = RUNNING
    /\ eventsOf(ops, "initialize") = {}
    /\ \E i \in eventsOf(ops, "advance") :
         /\ ops[i].n = currentMinuteFlap /\ ops[i].n = getCurrentMinute(Globals)
         /\ ops[i + 1].k = "moveFlaps" /\ ops[i + 1].n = 1
    /\ Cardinality(eventsOf(ops, "moveSteps")) = 1

----------------------------------------------------------------------------
(* Properties of the MINUTE_ALIGN tick (Spec) *)

\* the pass of loop() from MINUTE_ALIGN; no pass moves the minutes wheel
\* after handleMinuteAlign has read the endstop, so that the wheel is after
\* the pass where the reading found it
AlignTick ==
    /\ pc = "loop" /\ state = MINUTE_ALIGN
    /\ eventsOf(ops', "update") # {}
    /\ eventsOf(ops', "initialize") = {}

\* C29: a MINUTE_ALIGN tick that reads the minutes endstop LOW stops the
\* minutes engine, sets the minute flap index and the minute accumulator to
\* home, sets RUNNING, and then advances the hours axis by
\* (target - tracked + 24) mod 24 flaps exactly if the flap of the current
\* hour differs from the hour flap index, which in the end is that flap.
C29_AlignDone ==
    [][(AlignTick /\ endstopLow(sensor["min"], pos'["min"])) =>
         LET u  == nextOf(ops', 0, "update")
             e2 == nextOf(ops', nextOf(ops', u, "engineUpdate"), "engineUpdate")
             r  == nextOf(ops', u, "rehomeCheck")
             target == hourFlapOf(g_is24HourDisplay, getCurrentHour(Globals))
             d  == (target - currentHourFlap + HourWheel) % HourWheel
         IN  /\ ~minutesMotor'.isMoving /\ minutesMotor'.pins = LOW4
             /\ currentMinuteFlap' = MINUTE_HOME_OFFSET /\ minuteStepError' = 0
             /\ state' = RUNNING
             /\ ops'[e2 + 1].k = "state" /\ ops'[e2 + 1].a = RUNNING
             /\ \A i \in (e2 + 1)..(r - 1) :
                  /\ ops'[i].k = "state" => i = e2 + 1
                  /\ ops'[i].k \in MotionKinds => ops'[i].a = "hr"
                  /\ ops'[i].k = "moveFlaps" => (i = e2 + 2 /\ ops'[i].n = d)
             /\ IF target # currentHourFlap
                THEN /\ ops'[e2 + 2].k = "moveFlaps"
                     /\ Cardinality(stepCommands(ops', "hr")) = d
                     /\ ~hoursMotor'.isMoving
                ELSE /\ r = e2 + 2
                     /\ UNCHANGED <<hoursMotor, hourStepError>>
             /\ currentHourFlap' = target]_vars

\* C29 witness: a pass of loop() whose update() began in MINUTE_ALIGN with
\* the sweep under way, found the endstop LOW and moved the hours axis on
C29_Witness ==
    /\ loopPass /\ state = RUNNING
    /\ currentMinuteFlap = MINUTE_HOME_OFFSET /\ pos["min"] = 0
    /\ minutesMotor.stepsMoved > 0
    /\ minutesMotor.stepsMoved < minutesMotor.targetSteps
    /\ \E i \in eventsOf(ops, "update") :
         /\ ops[i].st = MINUTE_ALIGN
         /\ \E j \in eventsOf(ops, "moveFlaps") : j > i /\ ops[j].a = "hr" /\ ops[j].n = 1

----------------------------------------------------------------------------
(* Runs of the main loop around the end of an alignment sweep whose        *)
(* endstop never read LOW: the state MINUTE_ALIGN at the top of an hour,   *)
(* the minutes engine SweepLeft steps before the end of its two            *)
(* revolutions, the minutes endstop dead; it may recover on the way.       *)

SweepLeft == {1, 2, 3}

InitAlign ==
    /\ \E left \in SweepLeft :
         minutesMotor =
            advance(moveSteps(setSpeed(StepperMotor(TRUE), HOMING_SPEED_STEPS_PER_SEC),
                              MOTOR_STEPS_PER_REVOLUTION * AlignRevolutions, 0),
                    MOTOR_STEPS_PER_REVOLUTION * AlignRevolutions - left)
    /\ hoursMotor = setSpeed(StepperMotor(FALSE), NORMAL_SPEED_STEPS_PER_SEC)
    /\ state = MINUTE_ALIGN
    /\ currentMinuteFlap = 59 /\ currentHourFlap = 6
    /\ minuteStepError \in {-1, 1} /\ hourStepError = 0
    /\ g_isManualTimeMode = FALSE /\ g_manualHour = 10 /\ g_manualMinute = 10
    /\ g_is24HourDisplay \in BOOLEAN /\ g_quietHoursEnabled = FALSE
    /\ quietA = DefaultA /\ quietB = DefaultB
    /\ g_minStepsPerFlap = MechStepsPerFlapQ /\ g_hrStepsPerFlap = MechStepsPerFlapQ
    /\ ntp = [day |-> Tuesday, hour |-> 7, minute |-> 0]
    /\ wifiConnected = TRUE
    /\ sensor = [min |-> "stuckOpen", hr |-> "ok"]
    /\ pos \in { [min |-> p, hr |-> 26] : p \in {100, WheelSteps("min") - 2} }
    /\ lastRehomeCheckMinute = 0
    /\ micros = 0
    /\ ops = <<>> /\ ret = FALSE
    /\ issuedSteps = [a \in Axes |-> 0] /\ flapsDone = [a \in Axes |-> 0]
    /\ calls = 0 /\ result = 0
    /\ elapsed = 0 /\ disturbances = 0 /\ requests = 0
    /\ pc = "align"

\* one pass of loop() without a web request: splitFlapClock.update() and
\* the scheduled re-homing block
AlignPass ==
    /\ pc = "align"
    /\ calls < MaxPasses
    /\ calls' = calls + 1
    /\ \E now \in Readings :
         \E c1 \in {rehomeCheck(clockUpdate(Ctx(now, Globals), Globals),
                                Globals, lastRehomeCheckMinute)} : Commit(c1)
    /\ lastRehomeCheckMinute' = getCurrentMinute(Globals)
    /\ UNCHANGED <<cfgVars, manVars, envVars, runVars, issuedSteps, flapsDone, result,
                   micros, pc>>

\* the minutes endstop starts to work again
AlignSensorBack ==
    /\ pc = "align"
    /\ sensor["min"] = "stuckOpen"
    /\ disturbances < MaxDisturbances
    /\ disturbances' = disturbances + 1
    /\ sensor' = [sensor EXCEPT !["min"] = "ok"]
    /\ ops' = <<>> /\ ret' = FALSE
    /\ UNCHANGED <<motorVars, clockVars, cfgVars, manVars, ntp, wifiConnected, obsVars,
                   elapsed, requests, lastRehomeCheckMinute, micros, pos, pc>>

NextAlign == AlignPass \/ AlignSensorBack

SpecAlign == InitAlign /\ [][NextAlign]_vars

\* the pass of loop() from MINUTE_ALIGN in which update() makes the last
\* step of the sweep and handleMinuteAlign then reads the endstop not LOW
RanOutTick ==
    /\ state = MINUTE_ALIGN
    /\ minutesMotor.isMoving
    /\ minutesMotor.stepsMoved + 1 = minutesMotor.targetSteps
    /\ \E i \in eventsOf(ops', "phase") : ops'[i].a = "min"
    /\ ~endstopLow(sensor["min"], turned("min", minutesMotor, pos["min"], 1))

\* C30: a MINUTE_ALIGN tick that finds the minutes endstop not LOW and the
\* minutes engine idle, its sweep run out, commands a new sweep of two
\* revolutions on the minutes engine and leaves the state MINUTE_ALIGN; no
\* tick ends in MINUTE_ALIGN with the minutes engine idle.
C30_SweepReissued ==
    /\ [](state = MINUTE_ALIGN => minutesMotor.isMoving)
    /\ [][RanOutTick =>
            /\ state' = MINUTE_ALIGN
            /\ \E i \in eventsOf(ops', "moveSteps") :
                 /\ ops'[i].a = "min"
                 /\ ops'[i].n = MOTOR_STEPS_PER_REVOLUTION * AlignRevolutions
                 /\ i = Len(ops') - 1
                 /\ ops'[i - 1].k = "engineUpdate"
            /\ Cardinality(eventsOf(ops', "moveSteps")) = 1
            /\ minutesMotor'.isMoving
            /\ minutesMotor'.stepsMoved = 0
            /\ minutesMotor'.targetSteps = MOTOR_STEPS_PER_REVOLUTION * AlignRevolutions
            /\ UNCHANGED <<currentMinuteFlap, currentHourFlap, minuteStepError,
                           hourStepError, hoursMotor>>]_vars

\* C30 witness: the pass after which a second sweep is under way from its
\* first step, the first one performed to its end without the endstop
C30_Witness ==
    /\ pc = "align" /\ state = MINUTE_ALIGN
    /\ \E i \in eventsOf(ops, "phase") :
         /\ ops[i].a = "min"
         /\ \E j \in eventsOf(ops, "moveSteps") : j > i /\ ops[j].a = "min"
    /\ minutesMotor.isMoving /\ minutesMotor.stepsMoved = 0
    /\ sensor["min"] = "stuckOpen"

----------------------------------------------------------------------------
(* Runs of the main loop for as long as it runs: setup() with WiFi and     *)
(* mDNS up, then loop() called again and again, without web requests.  A   *)
(* pass is two steps, the call (LiveCall, weakly fair: the Arduino core    *)
(* calls loop() forever) and the pass itself (LivePass), which returns:    *)
(* the loop is back at its top infinitely often unless setup() halted.  A  *)
(* sweep is followed to its end: the passes in which it makes a step and   *)
(* nothing else happens are taken together (LiveFollow), the pass in which *)
(* the wheel reaches the endstop or the move ends is a pass of its own.    *)

\* steps a sweep in flight makes before the pass that ends it: all but the
\* one onto the endstop, or all but the last of the move
uneventful ==
    LET left == minutesMotor.targetSteps - minutesMotor.stepsMoved
        d    == stepsToEndstop("min", sensor["min"], pos["min"])
    IN  (IF d > 0 /\ d < left THEN d ELSE left) - 1

\* the micros() reading of a pass that ends a sweep: the counter back at 0,
\* or one step interval after the last step where 0 does not make it due
liveReading ==
    IF minutesMotor.isMoving /\ ~stepDue(minutesMotor, 0)
    THEN U32(minutesMotor.lastStepTime + minutesMotor.stepInterval)
    ELSE 0

\* loop() is called
LiveCall ==
    /\ pc = "loop"
    /\ minutesMotor.isMoving =>
          uneventful <= 0 \/ endstopLow(sensor["min"], pos["min"])
    /\ pc' = "pass"
    /\ UNCHANGED <<motorVars, clockVars, cfgVars, manVars, envVars, obsVars, runVars,
                   lastRehomeCheckMinute, micros, pos, ops, ret>>

\* one pass of loop() without a web request
LivePass ==
    /\ pc = "pass"
    /\ pc' = "loop"
    /\ \E c1 \in {rehomeCheck(clockUpdate(Ctx(liveReading, Globals), Globals),
                              Globals, lastRehomeCheckMinute)} : Commit(c1)
    /\ lastRehomeCheckMinute' = getCurrentMinute(Globals)
    /\ UNCHANGED <<cfgVars, manVars, envVars, obsVars, runVars, micros>>

\* the passes of loop() in MINUTE_ALIGN in which update() makes one step of
\* the sweep each and handleMinuteAlign finds the endstop not LOW and the
\* engine moving
LiveFollow ==
    /\ pc = "loop" /\ state = MINUTE_ALIGN
    /\ minutesMotor.isMoving
    /\ ~endstopLow(sensor["min"], pos["min"])
    /\ uneventful > 0
    /\ minutesMotor' = advance(minutesMotor, uneventful)
    /\ pos' = [pos EXCEPT !["min"] = turned("min", minutesMotor, @, uneventful)]
    /\ ops' = <<>> /\ ret' = FALSE
    /\ UNCHANGED <<hoursMotor, clockVars, cfgVars, manVars, envVars, obsVars, runVars,
                   lastRehomeCheckMinute, micros, pc>>

NextLive ==
    \/ Setup(TRUE, TRUE)
    \/ LiveCall
    \/ LivePass
    \/ LiveFollow
    \/ NtpMinute
    \/ \E a \in Axes, mode \in SensorModes : SensorChange(a, mode)
    \/ \E a \in Axes : Slip(a)
    \/ WifiChange

SpecLive ==
    /\ Init /\ [][NextLive]_vars
    /\ WF_vars(LiveCall) /\ WF_vars(LiveFollow)
    /\ []<>(pc \in {"loop", "halt"})

----------------------------------------------------------------------------
(* Properties of the QUIET_MODE tick (Spec) *)

\* the pass of loop() from QUIET_MODE that handles no request
QuietTick ==
    /\ pc = "loop" /\ state = QUIET_MODE
    /\ requests' = requests
    /\ eventsOf(ops', "update") # {}

\* the flaps from index flap forward to target on a wheel of size flaps
forwardDelta(flap, target, size) == (target - flap + size) % size

\* C32: a QUIET_MODE tick during which quiet hours still apply commands
\* nothing and changes no field.  One during which they no longer apply
\* catches up absolutely: it drives the minutes axis and then the hours axis
\* forward by (target - tracked index + wheel size) mod wheel size flaps,
\* without homing, and ends in the same tick with the state RUNNING and the
\* flap indices on the flaps of the current minute and hour.
C32_QuietTick ==
    [][QuietTick =>
         LET u  == nextOf(ops', 0, "update")
             r  == nextOf(ops', u, "rehomeCheck")
             alone == ops'[r].n = 0
             m  == getCurrentMinute(Globals)
             h  == hourFlapOf(g_is24HourDisplay, getCurrentHour(Globals))
             dm == forwardDelta(currentMinuteFlap, m, MinuteWheel)
             dh == forwardDelta(currentHourFlap, h, HourWheel)
             mm == nextOf(ops', u, "moveFlaps")
             mh == nextOf(ops', mm, "moveFlaps")
         IN  IF isInQuietHours(Globals)
             THEN /\ tickDid = <<>>
                  /\ alone => UNCHANGED <<motorVars, clockVars, pos>>
             ELSE /\ ops'[u + 3].k = "log"
                  /\ ops'[u + 3].a = "Exiting Quiet Hours. Catching up."
                  /\ \A i \in tickEvents : ops'[i].k \notin {"home", "initialize"}
                  /\ { i \in tickEvents : ops'[i].k = "moveFlaps" } = {mm, mh}
                  /\ mm < mh
                  /\ ops'[mm].a = "min" /\ ops'[mm].n = dm
                  /\ ops'[mh].a = "hr" /\ ops'[mh].n = dh
                  /\ Cardinality({ i \in stepCommands(ops', "min") : i < r }) = dm
                  /\ Cardinality({ i \in stepCommands(ops', "hr") : i < r }) = dh
                  /\ \A i \in tickEvents :
                       /\ (ops'[i].k \in MotionKinds /\ ops'[i].a = "min") => i < mh
                       /\ (ops'[i].k \in MotionKinds /\ ops'[i].a = "hr") => i >= mh
                       /\ ops'[i].k = "moveSteps" => ops'[i].n > 0
                  /\ ops'[r - 1].k = "state" /\ ops'[r - 1].a = RUNNING
                  /\ alone =>
                       /\ state' = RUNNING
                       /\ currentMinuteFlap' = m /\ currentHourFlap' = h
                       /\ ~minutesMotor'.isMoving /\ ~hoursMotor'.isMoving]_vars

\* C32 witness: a pass of loop() whose update() began in QUIET_MODE at the
\* end of the quiet hours (07:00), moved the minutes axis and then the hours
\* axis (one flap, from the index it had entered the quiet hours with)
\* forward to the time and set RUNNING, with no homing
C32_Witness ==
    /\ loopPass /\ state = RUNNING
    /\ wifiConnected /\ getCurrentHour(Globals) = 7 /\ getCurrentMinute(Globals) = 0
    /\ eventsOf(ops, "home") = {}
    /\ currentMinuteFlap = 0 /\ currentHourFlap = 7
    /\ \E i \in eventsOf(ops, "update") :
         /\ ops[i].st = QUIET_MODE
         /\ \E j \in eventsOf(ops, "moveFlaps") : j > i /\ ops[j].a = "hr" /\ ops[j].n = 1

----------------------------------------------------------------------------
(* The public operations of SplitFlapClock called in any order, by any     *)
(* caller: initialize(), update(), displaySystemError(), the four jog      *)
(* commands, enterCalibrationMode().  pc tells the build: "ops" is the     *)
(* build as shipped (CALIBRATION_MODE false), "opsCalibration" the one     *)
(* with CALIBRATION_MODE true, whose initialize() ends in                  *)
(* enterCalibrationMode().  Between two operations the time source may     *)
(* move on, by one minute or by two, and an endstop sensor fail or         *)
(* recover.  A sweep in flight is followed to its end, the update() calls  *)
(* in which it makes a step and nothing else happens taken together.       *)

\* operations in one run
MaxOps == 4
\* sensor changes in one run
MaxFaults == 1

\* (day, hour, minute) the time source may show at the first operation: a
\* minute before 13:00 (the 59 -> 0 wrap, by sweep or by re-home), a minute
\* before the start of schedule A's window, a plain minute
OpsStartTimes ==
    { [day |-> Tuesday, hour |-> 12, minute |-> 59],
      [day |-> Tuesday, hour |-> 20, minute |-> 59],
      [day |-> Tuesday, hour |-> 10, minute |-> 14] }

\* the flap counts of the jog commands
JogFlaps == {1, 10}

InitOps ==
    /\ InitProgram
    /\ g_minStepsPerFlap = MechStepsPerFlapQ /\ g_hrStepsPerFlap = MechStepsPerFlapQ
    /\ g_is24HourDisplay \in BOOLEAN
    /\ g_quietHoursEnabled \in BOOLEAN
    /\ quietA = DefaultA /\ quietB = DefaultB
    /\ ntp \in OpsStartTimes
    /\ wifiConnected = TRUE
    /\ sensor = [min |-> "ok", hr |-> "ok"]
    /\ pos = [min |-> 1000, hr |-> 500]
    /\ pc \in {"ops", "opsCalibration"}

\* one more operation of the run: what every operation leaves alone
opsFrame ==
    /\ pc \in {"ops", "opsCalibration"}
    /\ calls < MaxOps
    /\ calls' = calls + 1
    /\ UNCHANGED <<cfgVars, manVars, envVars, issuedSteps, flapsDone, result, runVars,
                   lastRehomeCheckMinute, micros, pc>>

OpInitialize ==
    /\ opsFrame
    /\ \E now \in Readings :
         \E c1 \in {IF pc = "ops" THEN initialize(Ctx(now, Globals), Globals)
                    ELSE initializeCalibration(Ctx(now, Globals), Globals)} : Commit(c1)

\* update(); the initialize() calls it makes are made from RUNNING, a state
\* the CALIBRATION_MODE build does not reach
OpUpdate ==
    /\ opsFrame
    /\ \E now \in Readings :
         \E c1 \in {clockUpdate(Ctx(now, Globals), Globals)} : Commit(c1)

OpDisplaySystemError ==
    /\ opsFrame
    /\ \E now \in Readings :
         \E c1 \in {displaySystemError(Ctx(now, Globals), Globals,
                                       ERROR_CODE_WEB_FAIL_HR, ERROR_CODE_WEB_FAIL_MIN)} :
             Commit(c1)

OpCalibrateMove(a, flaps) ==
    /\ opsFrame
    /\ \E now \in Readings :
         \E c1 \in {calibrateMove(Ctx(now, Globals), Globals, a, flaps)} : Commit(c1)

OpEnterCalibrationMode ==
    /\ opsFrame
    /\ \E now \in Readings :
         \E c1 \in {enterCalibrationMode(Ctx(now, Globals))} : Commit(c1)

\* the update() calls of a sweep that find the endstop not LOW, make a step
\* and leave the engine moving
OpsFollow ==
    /\ pc \in {"ops", "opsCalibration"} /\ state = MINUTE_ALIGN
    /\ minutesMotor.isMoving
    /\ ~endstopLow(sensor["min"], pos["min"])
    /\ uneventful > 0
    /\ minutesMotor' = advance(minutesMotor, uneventful)
    /\ pos' = [pos EXCEPT !["min"] = turned("min", minutesMotor, @, uneventful)]
    /\ ops' = <<>> /\ ret' = FALSE
    /\ UNCHANGED <<hoursMotor, clockVars, cfgVars, manVars, envVars, obsVars, runVars,
                   lastRehomeCheckMinute, micros, pc>>

\* the minute after minute
minuteAfter(t) ==
    IF t.minute < 59 THEN [t EXCEPT !.minute = @ + 1]
    ELSE IF t.hour < 23 THEN [t EXCEPT !.minute = 0, !.hour = @ + 1]
    ELSE [minute |-> 0, hour |-> 0, day |-> (t.day + 1) % 7]

\* the time source moves on between two operations: by one minute, or
\* (jump) by two, the operations having been called less than once a minute
OpsMinute(jump) ==
    /\ pc \in {"ops", "opsCalibration"}
    /\ elapsed < MaxMinutes
    /\ elapsed' = elapsed + (IF jump THEN 2 ELSE 1)
    /\ ntp' = IF jump THEN minuteAfter(minuteAfter(ntp)) ELSE minuteAfter(ntp)
    /\ ops' = <<>> /\ ret' = FALSE
    /\ UNCHANGED <<motorVars, clockVars, cfgVars, manVars, wifiConnected, sensor,
                   obsVars, disturbances, requests, lastRehomeCheckMinute, micros,
                   pos, pc>>

\* an endstop sensor fails or recovers between two operations
OpsSensor(a, mode) ==
    /\ pc \in {"ops", "opsCalibration"}
    /\ disturbances < MaxFaults
    /\ disturbances' = disturbances + 1
    /\ sensor[a] # mode
    /\ sensor' = [sensor EXCEPT ![a] = mode]
    /\ ops' = <<>> /\ ret' = FALSE
    /\ UNCHANGED <<motorVars, clockVars, cfgVars, manVars, ntp, wifiConnected, obsVars,
                   elapsed, requests, lastRehomeCheckMinute, micros, pos, pc>>

NextOps ==
    \/ OpInitialize \/ OpUpdate \/ OpDisplaySystemError \/ OpEnterCalibrationMode
    \/ \E a \in Axes, flaps \in JogFlaps : OpCalibrateMove(a, flaps)
    \/ OpsFollow
    \/ \E jump \in BOOLEAN : OpsMinute(jump)
    \/ \E a \in Axes, mode \in SensorModes : OpsSensor(a, mode)

SpecOps == InitOps /\ [][NextOps]_vars

----------------------------------------------------------------------------
(* Properties of the public operations in any order (SpecOps) *)

\* C33: the state becomes CALIBRATION only in enterCalibrationMode(), which
\* in the build as shipped no operation calls (not update() with its drift
\* recovery and quiet transitions, not initialize(), not
\* displaySystemError()): it is entered by the explicit call alone.  The
\* entry leaves both engines stopped.  A jog command (1 or 10 flaps, either
\* axis) advances its axis by that many flaps in CALIBRATION and does
\* nothing in any other state.
C33_Calibration ==
    [][/\ (state' = CALIBRATION /\ state # CALIBRATION) =>
             /\ eventsOf(ops', "enterCalibrationMode") # {}
             /\ pc = "ops" => ops'[1].k = "enterCalibrationMode"
       /\ (\E i \in DOMAIN ops' : ops'[i].k = "enterCalibrationMode") =>
             /\ state' = CALIBRATION
             /\ ~minutesMotor'.isMoving /\ ~hoursMotor'.isMoving
             /\ minutesMotor'.pins = LOW4 /\ hoursMotor'.pins = LOW4
       /\ (ops' # <<>> /\ ops'[1].k = "calibrateMove") =>
             LET a == ops'[1].a
             IN  IF state = CALIBRATION
                 THEN /\ ops'[2].k = "moveFlaps" /\ ops'[2].a = a
                      /\ ops'[2].n = ops'[1].n
                      /\ Cardinality(stepCommands(ops', a)) = ops'[1].n
                      /\ \A i \in DOMAIN ops' :
                           ops'[i].k \in MotionKinds => ops'[i].a = a
                      /\ pos'[a] = (pos[a] + stepsOf(ops', stepCommands(ops', a)))
                                      % WheelSteps(a)
                      /\ state' = CALIBRATION
                 ELSE /\ Len(ops') = 1
                      /\ UNCHANGED <<motorVars, clockVars, pos>>]_vars

\* C33 witness: in the build as shipped, in CALIBRATION, a jog command has
\* advanced the minutes axis by ten flaps
C33_Witness ==
    /\ pc = "ops" /\ state = CALIBRATION
    /\ ops # <<>> /\ ops[1].k = "calibrateMove" /\ ops[1].a = "min" /\ ops[1].n = 10
    /\ ops[1].st = CALIBRATION
    /\ Cardinality(stepCommands(ops, "min")) = 10
    /\ Cardinality(eventsOf(ops, "phase")) = 10

----------------------------------------------------------------------------
(* The blocking loops, one iteration a step: the loop of homeMotor (after  *)
(* its setSpeed and moveSteps) and the loop of moveFlaps that waits for    *)
(* one flap's move (after its moveSteps).  Time passes while the loop      *)
(* runs: result.pace microseconds per iteration, micros is the reading of  *)
(* micros() and elapsed the microseconds since the loop was entered, of    *)
(* which millis() - startTime is the whole milliseconds.  The iteration is *)
(* weakly fair: the processor goes on executing the loop.                  *)

\* microseconds one iteration may take: less than a step interval, more
\* than one, several
WaitPaces == {1024, 2048, 4096}
\* micros() when the loop is entered: far from the wrap, just before it
WaitStarts == {0, Wrap - 3000}
\* the argument of the last setSpeed before the loop; 0: none yet
WaitSpeeds == {HOMING_SPEED_STEPS_PER_SEC, NORMAL_SPEED_STEPS_PER_SEC, 0}
\* steps of a single flap's move
WaitSteps == {roundQ(MechStepsPerFlapQ - 2), roundQ(MechStepsPerFlapQ + 2)}
\* where the wheel may stand when the loop is entered
WaitPositions == {0, 100}

InitWait ==
    /\ InitProgram
    /\ DefaultSettings
    /\ g_minStepsPerFlap = MechStepsPerFlapQ /\ g_hrStepsPerFlap = MechStepsPerFlapQ
    /\ \E mode \in SensorModes : sensor = [x \in Axes |-> mode]
    /\ \E p \in WaitPositions : pos = [x \in Axes |-> p]
    /\ pc = "call"

\* the engine of axis a set to m, the other left alone
engineSet(a, m) ==
    /\ minutesMotor' = IF a = "min" THEN m ELSE minutesMotor
    /\ hoursMotor' = IF a = "hr" THEN m ELSE hoursMotor

waitFrame ==
    UNCHANGED <<clockVars, cfgVars, manVars, envVars, issuedSteps, flapsDone,
                disturbances, requests, lastRehomeCheckMinute, ops>>

\* homeMotor up to its loop: setSpeed, moveSteps
HomeEnter(a, pace, start) ==
    /\ pc = "call"
    /\ pc' = "homeMotor"
    /\ result' = [a |-> a, pace |-> pace]
    /\ micros' = start
    /\ engineSet(a, moveSteps(setSpeed(engineOf(a), HOMING_SPEED_STEPS_PER_SEC),
                              MOTOR_STEPS_PER_REVOLUTION * HomingRevolutions, start))
    /\ calls' = calls + 1
    /\ waitFrame /\ UNCHANGED <<pos, elapsed, ret>>

\* moveFlaps up to the loop that waits for a flap's move: moveSteps, at
\* the speed s the last setSpeed left
FlapEnter(a, pace, start, s, n) ==
    /\ pc = "call"
    /\ pc' = "moveFlaps"
    /\ result' = [a |-> a, pace |-> pace]
    /\ micros' = start
    /\ engineSet(a, moveSteps(setSpeed(engineOf(a), s), n, start))
    /\ calls' = calls + 1
    /\ waitFrame /\ UNCHANGED <<pos, elapsed, ret>>

\* the wheel of the loop's axis after the engine went from m to m1
waitTurned(m, m1) ==
    [pos EXCEPT ![result.a] = turned(result.a, m1, @, m1.stepsMoved - m.stepsMoved)]

\* homeMotor: one iteration of while (motor.isMoving()), or the fall out of
\* the loop to return false
HomeIteration ==
    /\ pc = "homeMotor"
    /\ waitFrame /\ UNCHANGED <<result, calls>>
    /\ micros' = U32(micros + result.pace)
    /\ IF ~engineOf(result.a).isMoving
       THEN /\ pc' = "returned" /\ ret' = FALSE
            /\ UNCHANGED <<motorVars, pos, elapsed>>
       ELSE \E m1 \in {update(engineOf(result.a), micros')} :
              /\ pos' = waitTurned(engineOf(result.a), m1)
              /\ elapsed' = elapsed + result.pace
              /\ IF endstopLow(sensor[result.a], pos'[result.a])
                 THEN /\ engineSet(result.a, stop(m1))
                      /\ pc' = "returned" /\ ret' = TRUE
                 ELSE IF elapsed' \div 1000 > HomingTimeoutMs
                 THEN /\ engineSet(result.a, stop(m1))
                      /\ pc' = "returned" /\ ret' = FALSE
                 ELSE /\ engineSet(result.a, m1)
                      /\ pc' = "homeMotor" /\ ret' = FALSE

\* moveFlaps: one iteration of while (motor.isMoving()), or its exit
FlapIteration ==
    /\ pc = "moveFlaps"
    /\ waitFrame /\ UNCHANGED <<result, calls, elapsed>>
    /\ micros' = U32(micros + result.pace)
    /\ ret' = FALSE
    /\ IF ~engineOf(result.a).isMoving
       THEN /\ pc' = "returned"
            /\ UNCHANGED <<motorVars, pos>>
       ELSE \E m1 \in {update(engineOf(result.a), micros')} :
              /\ pos' = waitTurned(engineOf(result.a), m1)
              /\ engineSet(result.a, m1)
              /\ pc' = "moveFlaps"

NextWait ==
    \/ \E a \in Axes, pace \in WaitPaces, start \in WaitStarts : HomeEnter(a, pace, start)
    \/ \E a \in Axes, pace \in WaitPaces, start \in WaitStarts,
          s \in WaitSpeeds, n \in WaitSteps : FlapEnter(a, pace, start, s, n)
    \/ HomeIteration
    \/ FlapIteration

SpecWait ==
    /\ InitWait /\ [][NextWait]_vars
    /\ WF_vars(HomeIteration) /\ WF_vars(FlapIteration)

\* C34: every blocking wait returns.  The loop of homeMotor ends (by the
\* endstop, by the timeout or by the end of the move) even if the endstop
\* never reads LOW, and the loop of moveFlaps that waits for a flap's move
\* ends, for every speed the orchestrator sets; when they end the engine is
\* not moving.
C34_WaitsReturn ==
    /\ (pc \in {"homeMotor", "moveFlaps"}) ~> (pc = "returned")
    /\ [](pc = "returned" => ~minutesMotor.isMoving /\ ~hoursMotor.isMoving)

\* C34 witness: homeMotor has returned false by its timeout, the endstop
\* never LOW, the move of three revolutions not finished
C34_Witness ==
    /\ pc = "returned" /\ ~ret
    /\ engineOf(result.a).targetSteps = MOTOR_STEPS_PER_REVOLUTION * HomingRevolutions
    /\ sensor[result.a] = "stuckOpen"
    /\ engineOf(result.a).stepsMoved < engineOf(result.a).targetSteps
    /\ elapsed \div 1000 > HomingTimeoutMs

----------------------------------------------------------------------------
(* Properties of the scheduled re-homing block of loop() (Spec) *)

physicalFlap(a) ==
    ((IF a = "min" THEN MINUTE_HOME_OFFSET ELSE HOUR_HOME_POSITION)
       + (8 * pos[a] + MechStepsPerFlapQ) \div (2 * MechStepsPerFlapQ)) % WheelSize(a)

\* C36: with no missed step and endstops that read LOW exactly at home, in
\* every state with RUNNING and both engines at rest the flap index of each
\* axis is the flap its wheel shows, whatever the time source returned,
\* minutes that jump by more than one included.
C36_BeliefMatchesReality ==
    (/\ pc \in {"ops", "opsCalibration"} /\ disturbances = 0
     /\ state = RUNNING /\ ~minutesMotor.isMoving /\ ~hoursMotor.isMoving) =>
        \A a \in Axes : flapOf(a) = physicalFlap(a)

----------------------------------------------------------------------------
(* Properties of the hours axis in the main loop (Spec) *)

\* C37: with a time source that advances one minute at a time, every minute
\* seen by a tick, in every state with RUNNING, both engines at rest and the
\* minute flap index equal to the minute of the time source, the hour flap
\* index is the flap of the hour of the time source in the display mode set
\* (12-hour or 24-hour), also after quiet hours were entered and left; and
\* an hour change made from RUNNING, that is outside the re-homing
\* boundaries, advances the hours axis by exactly one flap.
C37_HoursInStep ==
    /\ (/\ pc = "loop" /\ state = RUNNING
        /\ ~minutesMotor.isMoving /\ ~hoursMotor.isMoving
        /\ currentMinuteFlap = getCurrentMinute(Globals)) =>
           currentHourFlap = hourFlapOf(g_is24HourDisplay, getCurrentHour(Globals))
    /\ \A i \in eventsOf(ops, "moveFlaps") :
         (ops[i].a = "hr" /\ ops[i].st = RUNNING) =>
             /\ ops[i].n = 1
             /\ Cardinality({ j \in stepCommands(ops, "hr") : j > i }) = 1

\* C37 witness: in 12-hour mode a pass of loop() whose update() ended the
\* alignment sweep at midnight and advanced the hours axis by one flap,
\* from 11 to 12
C37_Witness ==
    /\ loopPass /\ state = RUNNING /\ ~g_is24HourDisplay
    /\ getCurrentHour(Globals) = 0 /\ getCurrentMinute(Globals) = 0
    /\ currentMinuteFlap = 0 /\ currentHourFlap = 12
    /\ \E i \in eventsOf(ops, "moveFlaps") :
         ops[i].a = "hr" /\ ops[i].st = RUNNING /\ ops[i].n = 1

----------------------------------------------------------------------------
(* Range of the flap indices (Spec) *)

\* C38: with the hour of the time source in 0..23, its minute in 0..59 and
\* the error codes on the wheels, in every reachable state the minute flap
\* index is in 0..59 and the hour flap index in 0..23, and every flap count
\* computed by moveToAbsoluteFlap or by the hour change is in
\* 0..(wheel size - 1).
C38_IndexRange ==
    /\ currentMinuteFlap \in 0..(MinuteWheel - 1)
    /\ currentHourFlap \in 0..(HourWheel - 1)
    /\ \A i \in eventsOf(ops, "moveFlaps") : ops[i].n \in 0..(WheelSize(ops[i].a) - 1)

\* C38 witness: a pass of loop() whose update() left QUIET_MODE with the
\* minute flap index on 59 and the minute 0: moveToAbsoluteFlap wrapped the
\* difference of -59 to one flap forward
C38_Witness ==
    /\ loopPass /\ state = RUNNING
    /\ getCurrentMinute(Globals) = 0 /\ currentMinuteFlap = 0
    /\ \E i \in eventsOf(ops, "update") :
         /\ ops[i].st = QUIET_MODE
         /\ \E j \in eventsOf(ops, "moveFlaps") :
              j > i /\ ops[j].a = "min" /\ ops[j].n = 1
    /\ eventsOf(ops, "home") = {}

\* C39: between the operations of the orchestrator (update(), initialize(),
\* displaySystemError(), and the calibration commands), called from any
\* state in any order, the hours engine is not moving and the minutes engine
\* is moving only in MINUTE_ALIGN; so in RUNNING neither engine is moving,
\* which is what the drift check asks before it reads the endstops.
C39_MotionOnlyInAlign ==
    pc \in {"ops", "opsCalibration"} =>
        /\ ~hoursMotor.isMoving
        /\ minutesMotor.isMoving => state = MINUTE_ALIGN
        /\ state = RUNNING => ~(minutesMotor.isMoving \/ hoursMotor.isMoving)

\* C39 witness: an update() called in MINUTE_ALIGN with the sweep in flight
\* has found the endstop LOW, stopped the engine short of the sweep's end
\* and set RUNNING
C39_Witness ==
    /\ pc = "ops" /\ state = RUNNING
    /\ ops # <<>> /\ ops[1].k = "update" /\ ops[1].st = MINUTE_ALIGN
    /\ ~minutesMotor.isMoving
    /\ minutesMotor.targetSteps = MOTOR_STEPS_PER_REVOLUTION * AlignRevolutions
    /\ minutesMotor.stepsMoved \in 1..(minutesMotor.targetSteps - 1)

----------------------------------------------------------------------------
(* Properties of the main loop run without end (SpecLive) *)

\* C40: if both endstops work throughout (every homing succeeds) and quiet
\* hours never apply, then under fair ticking, once the time source stays
\* at a minute, from some point on the state is RUNNING with the minute
\* flap index equal to that minute, for good: no re-homing and no alignment
\* goes on without end.
C40_CatchesUp ==
    ([](sensor["min"] = "ok" /\ sensor["hr"] = "ok") /\ []~isInQuietHours(Globals)) =>
        <>[](state = RUNNING /\ currentMinuteFlap = getCurrentMinute(Globals))

\* C40 witness: the time source has moved on and a pass of loop() has
\* advanced the minutes axis to the minute, the endstops working and no
\* quiet hours applying
C40_Witness ==
    /\ pc = "loop" /\ loopPass /\ state = RUNNING
    /\ elapsed = MaxMinutes
    /\ sensor = [a \in Axes |-> "ok"] /\ ~isInQuietHours(Globals)
    /\ eventsOf(ops, "advance") # {}
    /\ currentMinuteFlap = getCurrentMinute(Globals)

====
